---- MODULE Spec2Model ----
(***************************************************************************)
(* Verification model of the Compass reporting pipeline                    *)
(* (backend/reporting): MetricParser, the chart-type classifier, the       *)
(* narrative synthesizer and the ReportGenerator orchestrator.             *)
(*                                                                         *)
(* Strings are sequences of one-character strings.  Each component has its *)
(* own specification (SpecParser, SpecClassify, SpecNarr, SpecPdf); the    *)
(* variables of the other components stay at their idle values.            *)
(***************************************************************************)
EXTENDS Integers, Sequences, FiniteSets, TLC

VARIABLES
    text,       \* MetricParser.parse: the argument metric_string
    pstatus,    \* "ready" | "returned" | "raised"
    parsed,     \* the ParsedMetric that parse returned (NoParsed before)
    dframe,     \* _detect_chart_type: the table df being classified
    cstatus,    \* "ready" | "done" | "visualized" | "raised"
    chart_type, \* the chart type _detect_chart_type returned
    viz,        \* what _generate_product_visualization drew for the table
    verror,     \* the exception that left it, "None" if it returned
    gen,        \* the ReportGenerator: use_gemini and gemini_api_key
    ninput,     \* arguments of the section being generated
    section,    \* which narrative section is generated
    response,   \* what the collaborator did when called (NoCall if not called)
    narrative,  \* the texts the section function returned
    nstatus,    \* "ready" | "done" | "raised"
    invocation, \* the entry point called, and how
    generator,  \* the ReportGenerator the entry point runs on
    payload,    \* the JSON payload
    datasets,   \* the product data directory
    responses,  \* what the collaborator did at each request
    result,     \* what the caller got: returned bytes, an exception, an exit
    outfile,    \* the file at the output path
    renders,    \* how many times generate_pdf ran
    lookups,    \* the product names whose dataset was looked up, in order
    gstatus,    \* "ready" | "done"
    bar,        \* DualBarChartFlowable.draw: the flowable self
    canvas,     \* what draw put on the canvas
    dstatus,    \* "ready" | "drawn"
    minput,     \* the Metrics Analysis block: the parsed key metrics
    mbundles,   \* category_metrics after the derivation loop
    mcharts,    \* metric_charts
    mstatus,    \* "ready" | "done" | "raised"
    glist,      \* group_by_type / group_by_category: the argument list
    grouped,    \* the dict returned
    gcall,      \* "ready" | the function that was called
    btable,     \* _generate_backlog_table: the rows of the table df
    bchart,     \* the story it returned and what the container drew
    bstatus     \* "ready" | "done"

parserVars == <<text, pstatus, parsed>>
classifyVars == <<dframe, cstatus, chart_type, viz, verror>>

narrVars == <<gen, ninput, section, response, narrative, nstatus>>
pdfVars == <<invocation, generator, payload, datasets, responses, result,
             outfile, renders, lookups, gstatus>>
drawVars == <<bar, canvas, dstatus>>
metricsVars == <<minput, mbundles, mcharts, mstatus>>
groupVars == <<glist, grouped, gcall>>
backlogVars == <<btable, bchart, bstatus>>

\* the variables of the other components, for each component
exceptParser == <<classifyVars, narrVars, pdfVars, drawVars, metricsVars, groupVars, backlogVars>>
exceptClassify == <<parserVars, narrVars, pdfVars, drawVars, metricsVars, groupVars, backlogVars>>
exceptNarr == <<parserVars, classifyVars, pdfVars, drawVars, metricsVars, groupVars, backlogVars>>
exceptPdf == <<parserVars, classifyVars, narrVars, drawVars, metricsVars, groupVars, backlogVars>>
exceptDraw == <<parserVars, classifyVars, narrVars, pdfVars, metricsVars, groupVars, backlogVars>>
exceptMetrics == <<parserVars, classifyVars, narrVars, pdfVars, drawVars, groupVars, backlogVars>>
exceptGroup == <<parserVars, classifyVars, narrVars, pdfVars, drawVars, metricsVars, backlogVars>>
exceptBacklog == <<parserVars, classifyVars, narrVars, pdfVars, drawVars, metricsVars, groupVars>>

-----------------------------------------------------------------------------
(* Bounds of the model                                                     *)

\* number of segments (number part ++ word part) concatenated into a text
MaxSegs == 2
\* number of columns of a table
MaxCols == 3

-----------------------------------------------------------------------------
(* Characters and text helpers                                             *)

Digit == {"0", "1", "2", "3", "4", "5", "6", "7", "8", "9"}
Space == {" "}
Sign  == {"+", "-"}

UpperSeq == <<"A","B","C","D","E","F","G","H","I","J","K","L","M",
              "N","O","P","Q","R","S","T","U","V","W","X","Y","Z">>
LowerSeq == <<"a","b","c","d","e","f","g","h","i","j","k","l","m",
              "n","o","p","q","r","s","t","u","v","w","x","y","z">>
UpperSet == {UpperSeq[k] : k \in 1..26}
LowerSet == {LowerSeq[k] : k \in 1..26}

\* str.lower() on one character
LowerChar(c) ==
    IF c \in UpperSet THEN LowerSeq[CHOOSE k \in 1..26 : UpperSeq[k] = c] ELSE c

\* str.lower()
LowerText(t) == [i \in 1..Len(t) |-> LowerChar(t[i])]

\* index just past the maximal run of characters of S that starts at i
\* (what a greedy  [S]*  consumes from position i)
RunEnd(t, i, S) ==
    CHOOSE j \in i..(Len(t) + 1) :
        /\ (j = Len(t) + 1 \/ t[j] \notin S)
        /\ \A k \in i..(j - 1) : t[k] \in S

\* the literal w occurs in t at position i
LitAt(t, i, w) ==
    /\ i + Len(w) - 1 <= Len(t)
    /\ \A k \in 1..Len(w) : t[i + k - 1] = w[k]

\* Python's  w in t
Contains(t, w) == \E i \in 1..(Len(t) - Len(w) + 1) : LitAt(t, i, w)

\* str.strip(): drop leading and trailing whitespace
Strip(t) ==
    LET a == RunEnd(t, 1, Space)
    IN  IF a > Len(t) THEN << >>
        ELSE LET b == CHOOSE j \in a..Len(t) :
                          /\ t[j] \notin Space
                          /\ \A k \in (j + 1)..Len(t) : t[k] \in Space
             IN  SubSeq(t, a, b)

\* words used by the patterns and keyword tables
W_request   == <<"r","e","q","u","e","s","t">>
W_requests  == <<"r","e","q","u","e","s","t","s">>
W_item      == <<"i","t","e","m">>
W_unit      == <<"u","n","i","t">>
W_units     == <<"u","n","i","t","s">>
W_case      == <<"c","a","s","e">>
W_increase  == <<"i","n","c","r","e","a","s","e">>
W_decrease  == <<"d","e","c","r","e","a","s","e">>
W_growth    == <<"g","r","o","w","t","h">>
W_change    == <<"c","h","a","n","g","e">>
W_trend     == <<"t","r","e","n","d">>
W_volume    == <<"v","o","l","u","m","e">>
W_total     == <<"t","o","t","a","l">>
W_count     == <<"c","o","u","n","t">>
W_percent   == <<"p","e","r","c","e","n","t">>
W_percentage == <<"p","e","r","c","e","n","t","a","g","e">>
W_time      == <<"t","i","m","e">>
W_duration  == <<"d","u","r","a","t","i","o","n">>
W_hours     == <<"h","o","u","r","s">>
W_days      == <<"d","a","y","s">>
W_minutes   == <<"m","i","n","u","t","e","s">>
W_up        == <<"u","p">>
W_rise      == <<"r","i","s","e">>
W_higher    == <<"h","i","g","h","e","r">>
W_decline   == <<"d","e","c","l","i","n","e">>
W_down      == <<"d","o","w","n">>
W_fall      == <<"f","a","l","l">>
W_lower     == <<"l","o","w","e","r">>


-----------------------------------------------------------------------------
(* Floating point values (Python float), as far as the parser needs them   *)

\* IEEE-754 double: the largest finite value is 1.797...e308, so a decimal
\* integer of more than 309 significant digits converts to infinity
FloatMaxDigits == 309

DigitSeq == <<"0", "1", "2", "3", "4", "5", "6", "7", "8", "9">>
DigitVal(c) == (CHOOSE k \in 1..10 : DigitSeq[k] = c) - 1

RECURSIVE DigitsToNat(_)
DigitsToNat(ds) ==
    IF ds = << >> THEN 0
    ELSE 10 * DigitsToNat(SubSeq(ds, 1, Len(ds) - 1)) + DigitVal(ds[Len(ds)])

\* Optional[float] None
NoneVal == [kind |-> "none", neg |-> FALSE, ip |-> 0, fp |-> << >>]
\* float('inf') / float('-inf')
InfVal(neg) == [kind |-> "inf", neg |-> neg, ip |-> 0, fp |-> << >>]

\* float(s) for s of the shape [+-]?\d+\.?\d* (the shape of every capture
\* group): the decimal value as sign, integer part and fraction digits
\* (trailing zeros dropped, so equal values are equal records; -0.0 == 0.0).
\* More than FloatMaxDigits significant integer digits overflow to infinity.
ToFloat(s) ==
    LET neg  == s[1] = "-"
        a    == IF s[1] \in Sign THEN 2 ELSE 1
        b    == RunEnd(s, a, Digit)
        nz   == RunEnd(s, a, {"0"})
        c    == IF b <= Len(s) /\ s[b] = "." THEN b + 1 ELSE b
        last == IF \E j \in c..Len(s) : s[j] # "0"
                THEN CHOOSE j \in c..Len(s) :
                         s[j] # "0" /\ \A k \in (j + 1)..Len(s) : s[k] = "0"
                ELSE c - 1
        fp   == SubSeq(s, c, last)
    IN  IF b - nz > FloatMaxDigits THEN InfVal(neg)
        ELSE LET ip == DigitsToNat(SubSeq(s, nz, b - 1))
             IN  [kind |-> "num", neg |-> neg /\ (ip # 0 \/ fp # << >>),
                  ip |-> ip, fp |-> fp]

\* truthiness of an Optional[float]:  `if parsed.value`
Truthy(v) == v.kind = "inf" \/ (v.kind = "num" /\ (v.ip # 0 \/ v.fp # << >>))

\* int(v) raises OverflowError for an infinite float
IntRaises(v) == v.kind = "inf"

-----------------------------------------------------------------------------
(* MetricParser.PATTERNS: one matcher per compiled pattern.                *)
(* M(t, i) is the result of matching at start position i: ok, and g the    *)
(* text of group(1).  Every quantifier of these patterns is followed by a  *)
(* character class disjoint from its own, so giving characters back never  *)
(* lets a failed match succeed and the greedy match is the only one.       *)

NoMatch == [ok |-> FALSE, g |-> << >>]

\* ([+-]?\d+\.?\d*)  : end positions of sign, digits, dot, digits
NumShape(t, i) ==
    LET a == IF i <= Len(t) /\ t[i] \in Sign THEN i + 1 ELSE i
        b == RunEnd(t, a, Digit)
        c == IF b <= Len(t) /\ t[b] = "." THEN b + 1 ELSE b
        d == RunEnd(t, c, Digit)
    IN  [ok |-> b > a, end |-> d]

\* M_percentage with the capture of the 'requests' pattern, (\d+)\s*% : no
\* sign and no decimals
M_percentage_intOnly(t, i) ==
    LET b == RunEnd(t, i, Digit)
        e == RunEnd(t, b, Space)
    IN  IF b > i /\ e <= Len(t) /\ t[e] = "%"
        THEN [ok |-> TRUE, g |-> SubSeq(t, i, b - 1)] ELSE NoMatch

\* 'percentage': ([+-]?\d+\.?\d*)\s*%
M_percentage(t, i) ==
    LET n == NumShape(t, i)
        e == RunEnd(t, n.end, Space)
    IN  IF n.ok /\ e <= Len(t) /\ t[e] = "%"
        THEN [ok |-> TRUE, g |-> SubSeq(t, i, n.end - 1)] ELSE NoMatch

\* 'growth_percentage': ([+-]?\d+\.?\d*)\s*%\s*growth  (IGNORECASE: t is the
\* lower-cased text)
M_growth_percentage(t, i) ==
    LET n == NumShape(t, i)
        e == RunEnd(t, n.end, Space)
    IN  IF /\ n.ok /\ e <= Len(t) /\ t[e] = "%"
           /\ LitAt(t, RunEnd(t, e + 1, Space), W_growth)
        THEN [ok |-> TRUE, g |-> SubSeq(t, i, n.end - 1)] ELSE NoMatch

\* 'requests': (\d+)\s*requests?
M_requests(t, i) ==
    LET b == RunEnd(t, i, Digit)
    IN  IF b > i /\ LitAt(t, RunEnd(t, b, Space), W_request)
        THEN [ok |-> TRUE, g |-> SubSeq(t, i, b - 1)] ELSE NoMatch

\* \s*(?:increase|decrease) at position f
IncDecAt(t, f) ==
    LET h == RunEnd(t, f, Space)
    IN  LitAt(t, h, W_increase) \/ LitAt(t, h, W_decrease)

\* 'increase': ([+-]?\d+)\s*(?:requests?|items?|units?)?\s*(?:increase|decrease)
\* (IGNORECASE: t is the lower-cased text)
M_increase(t, i) ==
    LET a == IF i <= Len(t) /\ t[i] \in Sign THEN i + 1 ELSE i
        b == RunEnd(t, a, Digit)
        e == RunEnd(t, b, Space)
        viaWord(w) ==
            /\ LitAt(t, e, w)
            /\ \/ IncDecAt(t, e + Len(w))
               \/ LitAt(t, e + Len(w), <<"s">>) /\ IncDecAt(t, e + Len(w) + 1)
    IN  IF /\ b > a
           /\ \/ viaWord(W_request) \/ viaWord(W_item) \/ viaWord(W_unit)
              \/ IncDecAt(t, b)
        THEN [ok |-> TRUE, g |-> SubSeq(t, i, b - 1)] ELSE NoMatch

\* 'count': (\d+)\s*(?:requests?|items?|units?|cases?)
M_count(t, i) ==
    LET b == RunEnd(t, i, Digit)
        e == RunEnd(t, b, Space)
    IN  IF /\ b > i
           /\ \/ LitAt(t, e, W_request) \/ LitAt(t, e, W_item)
              \/ LitAt(t, e, W_unit) \/ LitAt(t, e, W_case)
        THEN [ok |-> TRUE, g |-> SubSeq(t, i, b - 1)] ELSE NoMatch

\* the inline pattern of the last rung: ([+-]?\d+\.?\d*)
M_number(t, i) ==
    LET n == NumShape(t, i)
    IN  IF n.ok THEN [ok |-> TRUE, g |-> SubSeq(t, i, n.end - 1)] ELSE NoMatch

\* pattern.search(t): the match at the leftmost start position that matches
Search(M(_, _), t) ==
    LET starts == {i \in 1..Len(t) : M(t, i).ok}
    IN  IF starts = {} THEN NoMatch
        ELSE M(t, CHOOSE i \in starts : \A k \in starts : i <= k)

-----------------------------------------------------------------------------
(* MetricParser._extract_value_and_unit                                    *)

VU(v, u) == [value |-> v, unit |-> u]

\* the unit of an increase/decrease match: 'request' in text.lower()
IncreaseUnit(t) == IF Contains(LowerText(t), W_request) THEN "requests" ELSE "units"

\* _extract_value_and_unit with the requests rung tried before the percentage
\* rungs
_extract_value_and_unit_requestsFirst(t) ==
    LET lt             == LowerText(t)
        percent_match  == Search(M_percentage, t)
        growth_match   == Search(M_growth_percentage, lt)
        requests_match == Search(M_requests, t)
        increase_match == Search(M_increase, lt)
        count_match    == Search(M_count, t)
        number_match   == Search(M_number, t)
    IN  IF requests_match.ok THEN VU(ToFloat(requests_match.g), "requests")
        ELSE IF percent_match.ok THEN VU(ToFloat(percent_match.g), "%")
        ELSE IF growth_match.ok THEN VU(ToFloat(growth_match.g), "%")
        ELSE IF increase_match.ok THEN VU(ToFloat(increase_match.g), IncreaseUnit(t))
        ELSE IF count_match.ok THEN VU(ToFloat(count_match.g), "units")
        ELSE IF number_match.ok THEN VU(ToFloat(number_match.g), "None")
        ELSE VU(NoneVal, "None")

\* rungs in source order; the first pattern that is found returns
_extract_value_and_unit(t) ==
    LET lt             == LowerText(t)
        percent_match  == Search(M_percentage, t)
        growth_match   == Search(M_growth_percentage, lt)
        requests_match == Search(M_requests, t)
        increase_match == Search(M_increase, lt)
        count_match    == Search(M_count, t)
        number_match   == Search(M_number, t)
    IN  IF percent_match.ok THEN VU(ToFloat(percent_match.g), "%")
        ELSE IF growth_match.ok THEN VU(ToFloat(growth_match.g), "%")
        ELSE IF requests_match.ok THEN VU(ToFloat(requests_match.g), "requests")
        ELSE IF increase_match.ok THEN VU(ToFloat(increase_match.g), IncreaseUnit(t))
        ELSE IF count_match.ok THEN VU(ToFloat(count_match.g), "units")
        ELSE IF number_match.ok THEN VU(ToFloat(number_match.g), "None")
        ELSE VU(NoneVal, "None")

-----------------------------------------------------------------------------
(* MetricParser._determine_type and _determine_trend                       *)

\* TYPE_KEYWORDS, in declaration (dict iteration) order
TYPE_KEYWORDS ==
    << [type |-> "growth",
        keywords |-> {W_growth, W_increase, W_decrease, W_change, W_trend}],
       [type |-> "volume",
        keywords |-> {W_requests, W_volume, W_total, W_count}],
       [type |-> "percentage",
        keywords |-> {<<"%">>, W_percent, W_percentage}],
       [type |-> "time",
        keywords |-> {W_time, W_duration, W_hours, W_days, W_minutes}] >>

\* TREND_KEYWORDS, in declaration order
TREND_KEYWORDS ==
    << [trend |-> "up",
        keywords |-> {W_increase, W_growth, W_up, W_rise, W_higher, <<"+">>}],
       [trend |-> "down",
        keywords |-> {W_decrease, W_decline, W_down, W_fall, W_lower, <<"-">>}] >>

\* first table entry one of whose keywords occurs in lt (0 when none does)
FirstKeywordHit(table, lt) ==
    LET hits == {k \in 1..Len(table) :
                    \E w \in table[k].keywords : Contains(lt, w)}
    IN  IF hits = {} THEN 0 ELSE CHOOSE k \in hits : \A j \in hits : k <= j

\* _determine_type with the volume keywords tried before the growth keywords
_determine_type_volumeFirst(t) ==
    LET table == <<TYPE_KEYWORDS[2], TYPE_KEYWORDS[1], TYPE_KEYWORDS[3],
                   TYPE_KEYWORDS[4]>>
        k == FirstKeywordHit(table, LowerText(t))
    IN  IF k = 0 THEN "unknown" ELSE table[k].type

_determine_type(t) ==
    LET k == FirstKeywordHit(TYPE_KEYWORDS, LowerText(t))
    IN  IF k = 0 THEN "unknown" ELSE TYPE_KEYWORDS[k].type

_determine_trend(t) ==
    LET k == FirstKeywordHit(TREND_KEYWORDS, LowerText(t))
    IN  IF k # 0 THEN TREND_KEYWORDS[k].trend
        ELSE IF Contains(t, <<"+">>) THEN "up"
        ELSE IF Contains(t, <<"-">>) /\ ~LitAt(t, 1, <<"-">>) THEN "down"
        ELSE "None"

-----------------------------------------------------------------------------
(* MetricParser._extract_category                                          *)

Letter   == UpperSet \cup LowerSet
WordChar == Letter \cup Digit \cup {"_"}
\* the class [a-zA-Z\s&,]
BodyChar == Letter \cup Space \cup {"&", ","}

W_in    == <<"i","n">>
W_with  == <<"w","i","t","h">>
W_shows == <<"s","h","o","w","s">>
W_has   == <<"h","a","s">>
W_is    == <<"i","s">>

\* least element of a non-empty set of positions
MinPos(S) == CHOOSE i \in S : \A k \in S : i <= k

\* [A-Z][a-zA-Z\s&,]+? from position c up to the first end position j (lazy)
\* at which the rest of the pattern, After(j), matches
LazyPhrase(t, c, After(_)) ==
    LET ends == {j \in (c + 2)..(Len(t) + 1) :
                    /\ \A k \in (c + 1)..(j - 1) : t[k] \in BodyChar
                    /\ After(j)}
    IN  IF c <= Len(t) /\ t[c] \in UpperSet /\ ends # {}
        THEN [ok |-> TRUE, g |-> SubSeq(t, c, MinPos(ends) - 1)]
        ELSE NoMatch

\* \s+ followed by one of the words ws, at position j
SpacesThenWord(t, j, ws) ==
    /\ j <= Len(t) /\ t[j] \in Space
    /\ \E w \in ws : LitAt(t, RunEnd(t, j, Space), w)

\* patterns[0]: in\s+([A-Z][a-zA-Z\s&,]+?)(?:\s|$|,|\.)
M_cat_in(t, i) ==
    LET c == RunEnd(t, i + 2, Space)
        After(j) == j = Len(t) + 1 \/ t[j] \in Space \cup {",", "."}
    IN  IF LitAt(t, i, W_in) /\ c > i + 2
        THEN LazyPhrase(t, c, After) ELSE NoMatch

\* patterns[1]: ([A-Z][a-zA-Z\s&,]+?)\s+(?:with|shows|has|is)
M_cat_verb(t, i) ==
    LET After(j) == SpacesThenWord(t, j, {W_with, W_shows, W_has, W_is})
    IN  LazyPhrase(t, i, After)

\* patterns[2]: ([A-Z][a-zA-Z\s&,]+?)\s+(?:requests?|growth|increase)
M_cat_noun(t, i) ==
    LET After(j) == SpacesThenWord(t, j, {W_request, W_growth, W_increase})
    IN  LazyPhrase(t, i, After)

\* end position of  \s+(with|shows|has|is|requests?|growth|increase)  matched
\* at p against the lower-cased text lt (IGNORECASE), 0 when it does not match
FillerEnd(lt, p) ==
    LET e == RunEnd(lt, p, Space)
        alts == <<W_with, W_shows, W_has, W_is, W_requests, W_request,
                  W_growth, W_increase>>
        hit == {k \in 1..Len(alts) : LitAt(lt, e, alts[k])}
    IN  IF p <= Len(lt) /\ lt[p] \in Space /\ hit # {}
        THEN e + Len(alts[MinPos(hit)]) ELSE 0

\* re.sub(r'\s+(with|...|increase)', '', cat, flags=re.IGNORECASE)
RECURSIVE StripFillers(_)
StripFillers(cat) ==
    LET lt == LowerText(cat)
        starts == {p \in 1..Len(cat) : FillerEnd(lt, p) # 0}
    IN  IF starts = {} THEN cat
        ELSE LET p == MinPos(starts)
             IN  SubSeq(cat, 1, p - 1)
                 \o StripFillers(SubSeq(cat, FillerEnd(lt, p), Len(cat)))

NoCategory == [some |-> FALSE, s |-> << >>]

\* the category a pattern yields: match, strip, clean, keep if len > 3
CategoryFrom(m) ==
    LET category == StripFillers(Strip(m.g))
    IN  IF m.ok /\ Len(category) > 3
        THEN [some |-> TRUE, s |-> category] ELSE NoCategory

_extract_category(t) ==
    LET c1 == CategoryFrom(Search(M_cat_in, t))
        c2 == CategoryFrom(Search(M_cat_verb, t))
        c3 == CategoryFrom(Search(M_cat_noun, t))
    IN  IF c1.some THEN c1 ELSE IF c2.some THEN c2 ELSE c3

-----------------------------------------------------------------------------
(* MetricParser._generate_label                                            *)

UpperChar(c) ==
    IF c \in LowerSet THEN UpperSeq[CHOOSE k \in 1..26 : LowerSeq[k] = c] ELSE c

\* end position of  \d+\.?\d*\s*%?  matched at the digit at position p
NumberTokenEnd(t, p) ==
    LET b == RunEnd(t, p, Digit)
        c == IF b <= Len(t) /\ t[b] = "." THEN b + 1 ELSE b
        e == RunEnd(t, RunEnd(t, c, Digit), Space)
    IN  IF e <= Len(t) /\ t[e] = "%" THEN e + 1 ELSE e

\* re.sub(r'\d+\.?\d*\s*%?', '', text)
RECURSIVE RemoveNumbers(_)
RemoveNumbers(t) ==
    LET starts == {p \in 1..Len(t) : t[p] \in Digit}
    IN  IF starts = {} THEN t
        ELSE LET p == MinPos(starts)
             IN  SubSeq(t, 1, p - 1)
                 \o RemoveNumbers(SubSeq(t, NumberTokenEnd(t, p), Len(t)))

\* \b at position p of t (between t[p-1] and t[p])
WordBoundary(t, p) ==
    (p - 1 >= 1 /\ t[p - 1] \in WordChar) # (p <= Len(t) /\ t[p] \in WordChar)

\* end position of \b(in|with|shows|has|is|requests?|growth|increase|decrease)\b
\* matched at p against the lower-cased text lt, 0 when it does not match
LabelWordEnd(lt, p) ==
    LET alts == <<W_in, W_with, W_shows, W_has, W_is, W_requests, W_request,
                  W_growth, W_increase, W_decrease>>
        hit == {k \in 1..Len(alts) :
                   LitAt(lt, p, alts[k]) /\ WordBoundary(lt, p + Len(alts[k]))}
    IN  IF WordBoundary(lt, p) /\ hit # {}
        THEN p + Len(alts[MinPos(hit)]) ELSE 0

\* re.sub(r'\b(in|...|decrease)\b', '', label, flags=re.IGNORECASE) from
\* position from on; the whole text stays in view so that \b after a removed
\* word still sees the character before it
RECURSIVE RemoveLabelWords(_, _)
RemoveLabelWords(t, from) ==
    LET lt == LowerText(t)
        starts == {p \in from..Len(t) : LabelWordEnd(lt, p) # 0}
    IN  IF starts = {} THEN SubSeq(t, from, Len(t))
        ELSE LET p == MinPos(starts)
             IN  SubSeq(t, from, p - 1) \o RemoveLabelWords(t, LabelWordEnd(lt, p))

\* str.title(): a letter is upper-cased after a non-letter, lower-cased after
\* a letter
Title(t) ==
    [i \in 1..Len(t) |->
        IF i > 1 /\ t[i - 1] \in Letter THEN LowerChar(t[i]) ELSE UpperChar(t[i])]

Label(form, v, u, s) == [form |-> form, v |-> v, u |-> u, s |-> s]

\* _generate_label returning the cleaned text even when nothing is left of it
_generate_label_noFallback(t, metric_type, value, unit) ==
    IF metric_type = "growth" THEN
        IF Truthy(value) THEN Label("growth_fmt", value, "None", << >>)
        ELSE Label("Growth Rate", NoneVal, "None", << >>)
    ELSE IF metric_type = "volume" THEN
        IF Truthy(value) THEN
            IF IntRaises(value) THEN Label("OverflowError", value, "None", << >>)
            ELSE Label("volume_fmt", value,
                       IF unit = "None" THEN "Items" ELSE unit, << >>)
        ELSE Label("Volume", NoneVal, "None", << >>)
    ELSE IF metric_type = "percentage" THEN
        IF Truthy(value) THEN Label("percentage_fmt", value, "None", << >>)
        ELSE Label("Percentage", NoneVal, "None", << >>)
    ELSE
        LET label == Title(Strip(RemoveLabelWords(RemoveNumbers(t), 1)))
        IN  Label("cleaned", NoneVal, "None", label)

\* the label of _generate_label; form names the branch taken:
\*   "growth_fmt"      f"{value:+.1f}% Growth"       "Growth Rate"  the literal
\*   "volume_fmt"      f"{int(value)} {unit or 'Items'}"   "Volume"
\*   "percentage_fmt"  f"{value:.1f}%"               "Percentage"
\*   "cleaned"         the cleaned, title-cased text s     "Metric"
\*   "OverflowError"   int(value) raised
_generate_label(t, metric_type, value, unit) ==
    IF metric_type = "growth" THEN
        IF Truthy(value) THEN Label("growth_fmt", value, "None", << >>)
        ELSE Label("Growth Rate", NoneVal, "None", << >>)
    ELSE IF metric_type = "volume" THEN
        IF Truthy(value) THEN
            IF IntRaises(value) THEN Label("OverflowError", value, "None", << >>)
            ELSE Label("volume_fmt", value,
                       IF unit = "None" THEN "Items" ELSE unit, << >>)
        ELSE Label("Volume", NoneVal, "None", << >>)
    ELSE IF metric_type = "percentage" THEN
        IF Truthy(value) THEN Label("percentage_fmt", value, "None", << >>)
        ELSE Label("Percentage", NoneVal, "None", << >>)
    ELSE
        LET label == Title(Strip(RemoveLabelWords(RemoveNumbers(t), 1)))
        IN  IF label # << >> THEN Label("cleaned", NoneVal, "None", label)
            ELSE Label("Metric", NoneVal, "None", << >>)

-----------------------------------------------------------------------------
(* MetricParser.parse                                                      *)

\* the ParsedMetric of parse(metric_string); raised is TRUE when the call
\* raises instead of returning
ParsedMetric(t, vu, ty, lb) ==
    [original_text |-> t,
     value         |-> vu.value,
     unit          |-> vu.unit,
     metric_type   |-> ty,
     category      |-> _extract_category(t),
     trend         |-> _determine_trend(t),
     label         |-> lb,
     raised        |-> lb.form = "OverflowError"]

\* parse once the value, the unit and the type are known
ParseLabelled(t, vu, ty) ==
    ParsedMetric(t, vu, ty, _generate_label(t, ty, vu.value, vu.unit))

\* parse of the stripped text
ParseStripped(t) ==
    ParseLabelled(t, _extract_value_and_unit(t), _determine_type(t))

ParseMetric(metric_string) == ParseStripped(Strip(metric_string))

-----------------------------------------------------------------------------
(* Inputs of the parser specification                                      *)

\* number parts and word parts of a segment
NumParts  == { << >>, <<"1","2">>, <<"0">>, <<"1","2",".","5">>, <<"-","3">> }
WordParts == { << >>, <<"%">>, <<" ">> \o W_requests,
               <<" ","R">> \o SubSeq(W_requests, 2, 8),
               <<" ">> \o W_increase, <<" ">> \o W_growth,
               <<" ">> \o <<"i","t","e","m","s">> }
Segments  == {n \o w : n \in NumParts, w \in WordParts}

RECURSIVE SegTexts(_)
SegTexts(k) ==
    IF k = 0 THEN {<< >>}
    ELSE LET shorter == SegTexts(k - 1)
         IN  shorter \cup {p \o sg : p \in shorter, sg \in Segments}

\* a run of digits too long for a finite float
LongRun == [i \in 1..(FloatMaxDigits + 1) |-> "9"]
LongTexts == {sg \o LongRun \o w :
                 sg \in {<< >>, <<"-">>},
                 w \in {<<"%">>, <<" ">> \o W_requests, <<" ">> \o W_growth}}

\* texts made of numbers, percent signs and the words the label drops
FillerTexts ==
    { <<"i","n">>, <<"i","n"," ","w","i","t","h">>, <<"i","s"," ","1","2">>,
      <<"1","2"," ","i","n"," ","5">>, <<"h","a","s"," ","s","h","o","w","s">>,
      <<"I","N"," ","I","s">>, <<"%">>, <<"1","2","%"," ","i","n">>,
      <<"g","r","o","w","t","h"," ","i","n">>, <<" "," ">>,
      <<"S","t","a","t","u","s"," ","i","n">> }

\* texts with keywords of several types at once, and of the type time
TypeTexts ==
    { <<"3"," ","d","a","y","s">>,
      <<"1","2","%"," ","o","f"," ","t","o","t","a","l">>,
      <<"5"," ","D","a","y","s"," ","1","0","%">>,
      <<"p","e","r","c","e","n","t"," ","c","h","a","n","g","e">>,
      <<"5","%"," ","i","n","c","r","e","a","s","e"," ","i","n"," ","r","e","q","u","e","s","t","s">>,
      <<"4","0"," ","r","e","q","u","e","s","t","s"," ","i","n"," ","2"," ","h","o","u","r","s">> }

ParserInputs == SegTexts(MaxSegs) \cup LongTexts \cup FillerTexts \cup TypeTexts

NoParsed == [original_text |-> << >>, value |-> NoneVal, unit |-> "None",
             metric_type |-> "None", category |-> NoCategory,
             trend |-> "None", label |-> Label("None", NoneVal, "None", << >>),
             raised |-> FALSE]

-----------------------------------------------------------------------------
(* Specification of the parser: parse applied to one input                 *)

ParserIdle == text = << >> /\ pstatus = "idle" /\ parsed = NoParsed

ParserStart ==
    /\ text \in ParserInputs
    /\ pstatus = "ready"
    /\ parsed = NoParsed

\* MetricParser.parse(text): returns the ParsedMetric or raises
Parse ==
    /\ pstatus = "ready"
    /\ LET r == ParseMetric(text)
       IN  IF r.raised
           THEN pstatus' = "raised" /\ parsed' = NoParsed
           ELSE pstatus' = "returned" /\ parsed' = r
    /\ UNCHANGED text

-----------------------------------------------------------------------------
(* Properties of MetricParser                                              *)

\* a signed or unsigned, integer or decimal number: [+-]?digits(.digits)?
DecimalNumber(n) ==
    LET a == IF Len(n) >= 1 /\ n[1] \in Sign THEN 2 ELSE 1
        b == RunEnd(n, a, Digit)
    IN  /\ b > a
        /\ \/ b = Len(n) + 1
           \/ /\ b < Len(n) /\ n[b] = "."
              /\ RunEnd(n, b + 1, Digit) = Len(n) + 1

\* t is n followed by the suffix sfx, n a DecimalNumber
NumberThen(t, sfx) ==
    /\ Len(t) > Len(sfx)
    /\ SubSeq(t, Len(t) - Len(sfx) + 1, Len(t)) = sfx
    /\ DecimalNumber(SubSeq(t, 1, Len(t) - Len(sfx)))

NumberOf(t, sfx) == SubSeq(t, 1, Len(t) - Len(sfx))

\* C6: parse is total: for every string input it returns a ParsedMetric and
\* never raises.
C6_ParseNeverRaises == pstatus # "raised"

\* C7: for every metric string "<n>%", n a signed or unsigned, integer or
\* decimal number, parse(text).value equals n and parse(text).unit is '%'.
C7_PercentValueUnit ==
    (pstatus = "returned" /\ NumberThen(text, <<"%">>)) =>
        /\ parsed.value = ToFloat(NumberOf(text, <<"%">>))
        /\ parsed.unit = "%"

\* a signed decimal "<n>%" has been parsed
C7_Witness ==
    /\ pstatus = "returned"
    /\ text = <<"-","3","1","2",".","5","%">>
    /\ parsed.value = [kind |-> "num", neg |-> TRUE, ip |-> 312, fp |-> <<"5">>]
    /\ parsed.unit = "%"

\* C8: for every metric string "<n> requests", n any number (decimal and
\* signed numbers included), parse(text).value equals n and parse(text).unit
\* is 'requests'.
C8_RequestsValueUnit ==
    (pstatus # "ready" /\ NumberThen(text, <<" ">> \o W_requests)) =>
        /\ pstatus = "returned"
        /\ parsed.value = ToFloat(NumberOf(text, <<" ">> \o W_requests))
        /\ parsed.unit = "requests"

\* some start position of t matches the pattern M
Occurs(M(_, _), t) == \E i \in 1..Len(t) : M(t, i).ok
\* the leftmost start position of t that matches M
FirstStart(M(_, _), t) == MinPos({i \in 1..Len(t) : M(t, i).ok})

\* C9: value and unit come from the first rung that matches, in the order
\* percentage, growth-percentage, "<n> requests", "<n> ... increase/decrease",
\* generic count, bare number.  A text with both a "<n>%" and a
\* "<m> requests" occurrence yields (n, '%') whichever comes first; an
\* increase/decrease match yields 'requests' iff "request" occurs anywhere in
\* the text, else 'units'; a bare number yields unit none; a text without a
\* number yields (none, none).
C9_FirstRungWins ==
    pstatus = "returned" =>
        LET t   == parsed.original_text
            lt  == LowerText(t)
            pct == Occurs(M_percentage, t)
            gro == Occurs(M_growth_percentage, lt)
            req == Occurs(M_requests, t)
            inc == Occurs(M_increase, lt)
            cnt == Occurs(M_count, t)
            num == Occurs(M_number, t)
            grp(M(_, _), x) == ToFloat(M(x, FirstStart(M, x)).g)
        IN  /\ pct => parsed.unit = "%" /\ parsed.value = grp(M_percentage, t)
            /\ (~pct /\ gro) =>
                   parsed.unit = "%" /\ parsed.value = grp(M_growth_percentage, lt)
            /\ (~pct /\ ~gro /\ req) =>
                   parsed.unit = "requests" /\ parsed.value = grp(M_requests, t)
            /\ (~pct /\ ~gro /\ ~req /\ inc) =>
                   /\ parsed.value = grp(M_increase, lt)
                   /\ parsed.unit = "requests" <=> Contains(lt, W_request)
                   /\ parsed.unit = "units" <=> ~Contains(lt, W_request)
            /\ (~pct /\ ~gro /\ ~req /\ ~inc /\ cnt) =>
                   parsed.unit = "units" /\ parsed.value = grp(M_count, t)
            /\ (~pct /\ ~gro /\ ~req /\ ~inc /\ ~cnt /\ num) =>
                   parsed.unit = "None" /\ parsed.value = grp(M_number, t)
            /\ (\A i \in 1..Len(t) : t[i] \notin Digit) =>
                   parsed.unit = "None" /\ parsed.value = NoneVal

\* a "<m> requests" occurrence that comes before a "<n>%" occurrence has been
\* parsed to (n, '%')
C9_Witness ==
    /\ pstatus = "returned"
    /\ Occurs(M_requests, text) /\ Occurs(M_percentage, text)
    /\ FirstStart(M_requests, text) < FirstStart(M_percentage, text)
    /\ parsed.unit = "%"
    /\ parsed.value = ToFloat(M_percentage(text, FirstStart(M_percentage, text)).g)

-----------------------------------------------------------------------------
(* ReportGenerator._detect_chart_type                                      *)
(* A table (DataFrame) is its number of rows and its columns in order;     *)
(* a column is its name and whether its dtype is int64 or float64.         *)

N_rank             == <<"r","a","n","k">>
N_ranking_type     == <<"r","a","n","k","i","n","g","_","t","y","p","e">>
N_unresolved_count == <<"u","n","r","e","s","o","l","v","e","d","_","c","o","u","n","t">>
N_date             == <<"d","a","t","e">>
N_time_to_close    == <<"t","i","m","e","_","t","o","_","c","l","o","s","e">>
N_district         == <<"d","i","s","t","r","i","c","t">>
N_Category         == <<"C","a","t","e","g","o","r","y">>
N_value            == <<"v","a","l","u","e">>
N_avg_age_days     == <<"a","v","g","_","a","g","e","_","d","a","y","s">>
N_Service_Level_1  == <<"S","e","r","v","i","c","e"," ","L","e","v","e","l"," ","1">>
N_category         == <<"c","a","t","e","g","o","r","y">>
N_primary_metric   == <<"p","r","i","m","a","r","y","_","m","e","t","r","i","c">>
N_secondary_metric == <<"s","e","c","o","n","d","a","r","y","_","m","e","t","r","i","c">>

\* column names the tables of the model are built from
ColNames == {N_rank, N_ranking_type, N_unresolved_count, N_date,
             N_time_to_close, N_district, N_Category, N_value}

time_indicators     == {<<"t","i","m","e">>, <<"d","a","t","e">>, <<"p","e","r","i","o","d">>, <<"m","o","n","t","h">>, <<"y","e","a","r">>, <<"w","e","e","k">>}
scatter_indicators  == {<<"t","i","m","e","_","t","o","_","c","l","o","s","e">>, <<"r","e","q","u","e","s","t","_","c","o","u","n","t">>, <<"b","u","b","b","l","e","_","s","i","z","e">>,
                        <<"o","p","e","n","_","c","o","u","n","t">>}
geo_indicators      == {<<"d","i","s","t","r","i","c","t">>, <<"l","o","c","a","t","i","o","n">>, <<"r","e","g","i","o","n">>, <<"a","r","e","a">>, <<"e","l","e","c","t","o","r","a","l">>}
category_indicators == {<<"c","a","t","e","g","o","r","y">>, <<"g","r","o","u","p">>, <<"n","a","m","e">>, <<"l","a","b","e","l">>,
                        <<"s","e","r","v","i","c","e"," ","l","e","v","e","l">>}

\* df.columns as a sequence of names
ColumnNames(df) == [k \in 1..Len(df.columns) |-> df.columns[k].name]

\* name in df.columns
HasColumn(df, name) == \E k \in 1..Len(df.columns) : df.columns[k].name = name

\* df.empty: no rows or no columns
DfEmpty(df) == df.rows = 0 \/ Len(df.columns) = 0

\* ' '.join(columns)
RECURSIVE JoinSpace(_)
JoinSpace(cols) ==
    IF Len(cols) = 0 THEN << >>
    ELSE IF Len(cols) = 1 THEN cols[1]
    ELSE cols[1] \o <<" ">> \o JoinSpace(Tail(cols))

\* _detect_chart_type with the line rung testing len(numeric_cols) >= 2
_detect_chart_type_lineAtTwo(df) ==
    IF DfEmpty(df) THEN "table"
    ELSE
    LET columns      == [k \in 1..Len(df.columns) |-> LowerText(df.columns[k].name)]
        has_time_col == \E k \in 1..Len(columns) :
                            \E ind \in time_indicators : Contains(columns[k], ind)
        numeric_cols == {k \in 1..Len(df.columns) : df.columns[k].numeric}
        joined       == JoinSpace(columns)
        has_category == \E k \in 1..Len(columns) :
                            \E ind \in category_indicators : Contains(columns[k], ind)
    IN  IF HasColumn(df, N_ranking_type) \/ HasColumn(df, N_rank) THEN "bar"
        ELSE IF HasColumn(df, N_unresolved_count) THEN "bar"
        ELSE IF has_time_col /\ Cardinality(numeric_cols) >= 2 THEN "line"
        ELSE IF /\ \E ind \in scatter_indicators : Contains(joined, ind)
                /\ Cardinality(numeric_cols) >= 2 THEN "scatter"
        ELSE IF /\ Len(df.columns) = 2
                /\ df.columns[1].numeric # df.columns[2].numeric THEN "pie"
        ELSE IF /\ \E ind \in geo_indicators : Contains(joined, ind)
                /\ Cardinality(numeric_cols) >= 2 THEN "heatmap"
        ELSE IF /\ has_category /\ Cardinality(numeric_cols) >= 1
                /\ (Cardinality(numeric_cols) = 1 \/ ~has_time_col) THEN "bar"
        ELSE "table"

\* the chart type, rung by rung in source order
_detect_chart_type(df) ==
    IF DfEmpty(df) THEN "table"
    ELSE
    LET columns      == [k \in 1..Len(df.columns) |-> LowerText(df.columns[k].name)]
        has_time_col == \E k \in 1..Len(columns) :
                            \E ind \in time_indicators : Contains(columns[k], ind)
        numeric_cols == {k \in 1..Len(df.columns) : df.columns[k].numeric}
        joined       == JoinSpace(columns)
        has_category == \E k \in 1..Len(columns) :
                            \E ind \in category_indicators : Contains(columns[k], ind)
    IN  IF HasColumn(df, N_ranking_type) \/ HasColumn(df, N_rank) THEN "bar"
        ELSE IF HasColumn(df, N_unresolved_count) THEN "bar"
        ELSE IF has_time_col /\ Cardinality(numeric_cols) > 2 THEN "line"
        ELSE IF /\ \E ind \in scatter_indicators : Contains(joined, ind)
                /\ Cardinality(numeric_cols) >= 2 THEN "scatter"
        ELSE IF /\ Len(df.columns) = 2
                /\ df.columns[1].numeric # df.columns[2].numeric THEN "pie"
        ELSE IF /\ \E ind \in geo_indicators : Contains(joined, ind)
                /\ Cardinality(numeric_cols) >= 2 THEN "heatmap"
        ELSE IF /\ has_category /\ Cardinality(numeric_cols) >= 1
                /\ (Cardinality(numeric_cols) = 1 \/ ~has_time_col) THEN "bar"
        ELSE "table"

\* tables of at most MaxCols columns with distinct names, with or without rows
Columns == [name : ColNames, numeric : BOOLEAN]

RECURSIVE ColumnSeqs(_)
ColumnSeqs(k) ==
    IF k = 0 THEN {<< >>}
    ELSE LET shorter == ColumnSeqs(k - 1)
         IN  shorter \cup
             {Append(cs, c) : cs \in {x \in shorter : Len(x) = k - 1},
                              c \in Columns}

DistinctNames(cs) ==
    \A i, j \in 1..Len(cs) : i # j => cs[i].name # cs[j].name

Tables == {[rows |-> r, columns |-> cs] :
              r \in 0..1, cs \in {x \in ColumnSeqs(MaxCols) : DistinctNames(x)}}

NoTable == [rows |-> 0, columns |-> << >>]

ClassifyIdle ==
    /\ dframe = NoTable /\ cstatus = "idle" /\ chart_type = "None"
    /\ viz = << >> /\ verror = "None"

\* tables shaped like the backlog and the top-10 datasets, whole and with
\* columns missing
ShapedTables ==
    LET text_(name) == [name |-> name, numeric |-> FALSE]
        number(name) == [name |-> name, numeric |-> TRUE]
    IN  {[rows |-> 1, columns |-> cs] : cs \in
            { <<text_(N_Service_Level_1), number(N_unresolved_count),
                number(N_avg_age_days)>>,
              <<number(N_unresolved_count), number(N_avg_age_days)>>,
              <<text_(N_Service_Level_1), number(N_unresolved_count)>>,
              <<number(N_rank), text_(N_ranking_type), text_(N_category),
                number(N_primary_metric), number(N_secondary_metric)>>,
              <<text_(N_ranking_type), text_(N_category),
                number(N_primary_metric), number(N_secondary_metric)>> }}

ClassifyStart ==
    /\ dframe \in Tables \cup ShapedTables
    /\ cstatus = "ready"
    /\ chart_type = "None"
    /\ viz = << >>
    /\ verror = "None"

\* chart_type = self._detect_chart_type(df)
Classify ==
    /\ cstatus = "ready"
    /\ chart_type' = _detect_chart_type(dframe)
    /\ cstatus' = "done"
    /\ UNCHANGED <<dframe, viz, verror>>
    /\ UNCHANGED exceptClassify

-----------------------------------------------------------------------------
(* Properties of the classifier                                            *)

\* some column name, lower-cased, contains one of the indicators
NameHas(t, inds) ==
    \E k \in 1..Len(t.columns) :
        \E ind \in inds : Contains(LowerText(t.columns[k].name), ind)

NumericCount(t) == Cardinality({k \in 1..Len(t.columns) : t.columns[k].numeric})

\* the ladder of rungs, first match wins, as a function of the table's
\* emptiness, column names and numeric/text column types
Ladder(t) ==
    LET n == NumericCount(t)
    IN  CASE t.rows = 0 \/ Len(t.columns) = 0                      -> "table"
          [] \E k \in 1..Len(t.columns) :
                 t.columns[k].name \in {N_rank, N_ranking_type}    -> "bar"
          [] \E k \in 1..Len(t.columns) :
                 t.columns[k].name = N_unresolved_count            -> "bar"
          [] NameHas(t, time_indicators) /\ n > 2                  -> "line"
          [] NameHas(t, scatter_indicators) /\ n >= 2              -> "scatter"
          [] Len(t.columns) = 2 /\ n = 1                           -> "pie"
          [] NameHas(t, geo_indicators) /\ n >= 2                  -> "heatmap"
          [] /\ NameHas(t, category_indicators)
             /\ \/ n = 1
                \/ n > 1 /\ ~NameHas(t, time_indicators)           -> "bar"
          [] OTHER                                                 -> "table"

\* C10: _detect_chart_type is a function of the table's emptiness, column
\* names and column numeric/text types, and returns the result of the first
\* rung that matches: empty -> table; rank/ranking column -> bar;
\* unresolved-count column -> bar; time-like name and more than two numeric
\* columns -> line; scatter indicator and at least two numeric columns ->
\* scatter; exactly two columns, exactly one numeric -> pie; geographic
\* indicator and at least two numeric columns -> heatmap; category-like name
\* with exactly one numeric column, or several and no time-like column ->
\* bar; otherwise table.
C10_ClassifyLadder == cstatus = "done" => chart_type = Ladder(dframe)

\* a table on which the line rung, the scatter rung and the heatmap rung all
\* match has been classified line
C10_Witness ==
    /\ cstatus = "done"
    /\ dframe.rows > 0
    /\ NameHas(dframe, time_indicators) /\ NumericCount(dframe) > 2
    /\ NameHas(dframe, scatter_indicators)
    /\ NameHas(dframe, geo_indicators)
    /\ chart_type = "line"

-----------------------------------------------------------------------------
(* Narrative synthesizer: texts, numbers and the collaborator               *)

\* A composed text: the fixed template parts it is made of, in order, and the
\* strings substituted into them.  The collaborator's text is the part
\* "collaborator" with the cleaned response as its one argument.
Txt(parts, args) == [parts |-> parts, args |-> args]
CollabText(t) == Txt(<<"collaborator">>, <<t>>)

\* decimal places kept by Scaled
ScaleDigits == 1
RECURSIVE Pow10(_)
Pow10(k) == IF k = 0 THEN 1 ELSE 10 * Pow10(k - 1)

\* a finite float of at most ScaleDigits decimals as an integer number of
\* 10^-ScaleDigits units, so that sums, differences and order are exact
Scaled(v) ==
    LET mag == v.ip * Pow10(ScaleDigits)
               + DigitsToNat(v.fp) * Pow10(ScaleDigits - Len(v.fp))
    IN  IF v.neg THEN 0 - mag ELSE mag

Abs(n) == IF n < 0 THEN 0 - n ELSE n
ScaledAbs(v) == Abs(Scaled(v))
\* an integer constant of the source in Scaled units
Units(n) == n * Pow10(ScaleDigits)

\* sorted(ms, key=..., reverse=True) with keys[i] the key of ms[i]:
\* descending, and stable for equal keys
SortDesc(ms, keys) ==
    LET n == Len(ms)
        rank(i) == 1 + Cardinality({j \in 1..n :
                       keys[j] > keys[i] \/ (keys[j] = keys[i] /\ j < i)})
    IN  [p \in 1..n |-> ms[CHOOSE i \in 1..n : rank(i) = p]]

\* the keys abs(x.value) and x.value of a list of metrics
AbsKeys(ms) == [i \in 1..Len(ms) |-> ScaledAbs(ms[i].value)]
ValKeys(ms) == [i \in 1..Len(ms) |-> Scaled(ms[i].value)]

\* s[:n]
Take(sq, n) == SubSeq(sq, 1, IF Len(sq) < n THEN Len(sq) ELSE n)

\* truthiness of self.gemini_api_key: None and '' are falsy
KeyTruthy(key) == key \notin {"None", ""}

\* response.text.strip().replace('**', '').replace('*', '').replace('#', '').strip()
CleanMarkup(t) ==
    LET keep(c) == c \notin {"*", "#"}
    IN  Strip(SelectSeq(Strip(t), keep))

\* acceptance thresholds of the three paragraph sections and of one insight line
IntroMinLen      == 50
SummaryMinLen    == 100
ConclusionMinLen == 50
InsightMinLen    == 30
\* insights needed to accept the collaborator's list, and insights kept
InsightsNeeded   == 3
InsightsKept     == 4

\* the categories the fallbacks look for in the answer
common_categories ==
    << <<"R","e","c","r","e","a","t","i","o","n"," ","a","n","d"," ","l","e","i","s","u","r","e">>, <<"T","r","e","e","s">>, <<"R","o","a","d","s">>, <<"E","n","g","i","n","e","e","r","i","n","g">>, <<"B","u","i","l","d","i","n","g">>,
       <<"C","i","t","y"," ","G","e","n","e","r","a","l">> >>

\* [cat for cat in common_categories if cat.lower() in answer.lower()]
categories_mentioned(answer) ==
    LET hit(cat) == Contains(LowerText(answer), LowerText(cat))
    IN  SelectSeq(common_categories, hit)

W_trending == <<"t","r","e","n","d","i","n","g">>

-----------------------------------------------------------------------------
(* ReportGenerator._generate_introduction                                  *)

\* the fallback introduction (the code after the collaborator block)
FallbackIntroduction(answer) ==
    IF answer # << >> THEN
        LET cats == categories_mentioned(answer)
            la   == LowerText(answer)
            head == IF cats # << >> THEN "intro_including_categories"
                    ELSE "intro_no_categories"
            tail == IF Contains(la, W_trending) \/ Contains(la, W_increase)
                       \/ Contains(la, W_growth)
                    THEN "intro_growth_patterns" ELSE "intro_examines_volumes"
        IN  Txt(<<head, tail>>, Take(cats, 3))
    ELSE Txt(<<"intro_default">>, << >>)

\* outcome is the collaborator's behaviour for this call: it raises, or
\* returns text
_generate_introduction(use_gemini, key, answer, outcome) ==
    IF /\ use_gemini /\ KeyTruthy(key) /\ ~outcome.raises
       /\ Len(CleanMarkup(outcome.text)) > IntroMinLen
    THEN CollabText(CleanMarkup(outcome.text))
    ELSE FallbackIntroduction(answer)

-----------------------------------------------------------------------------
(* ReportGenerator._generate_executive_summary                             *)

IsGrowth(m) == m.metric_type = "growth" /\ Truthy(m.value)
IsVolume(m) == m.metric_type = "volume" /\ Truthy(m.value)
HasCategory(m) == m.category.some /\ m.category.s # << >>

\* qualitative bucket of the top growth value
growth_desc(v) ==
    IF ScaledAbs(v) > Units(75) THEN "exceptional growth"
    ELSE IF ScaledAbs(v) > Units(50) THEN "substantial growth"
    ELSE IF ScaledAbs(v) > Units(20) THEN "moderate growth"
    ELSE "notable changes"

\* answer.split('.')[0] and whether the split has more than one piece
FirstSentence(answer) ==
    IF Contains(answer, <<".">>)
    THEN SubSeq(answer, 1, MinPos({i \in 1..Len(answer) : answer[i] = "."}) - 1)
    ELSE answer

\* the basic, answer-based fallback
BasicSummary(answer) ==
    IF answer # << >> THEN
        IF Contains(answer, <<".">>)
        THEN Txt(<<"summary_trends_then_sentence">>, <<FirstSentence(answer)>>)
        ELSE Txt(<<"summary_trends_colon_answer">>, <<answer>>)
    ELSE Txt(<<"summary_default">>, << >>)

\* the fallback executive summary
FallbackExecutiveSummary(answer, parsed_metrics) ==
    LET growth_metrics == SelectSeq(parsed_metrics, IsGrowth)
        volume_metrics == SelectSeq(parsed_metrics, IsVolume)
        sorted_growth  == SortDesc(growth_metrics, AbsKeys(growth_metrics))
        top_categories == SelectSeq(Take(sorted_growth, 2), HasCategory)
        cat_args ==
            IF Len(top_categories) >= 2
            THEN <<top_categories[1].category.s, top_categories[2].category.s>>
            ELSE IF HasCategory(sorted_growth[1])
            THEN <<sorted_growth[1].category.s>>
            ELSE << >>
        growth_part ==
            IF growth_metrics # << >>
            THEN Txt(<<"summary_growth", growth_desc(sorted_growth[1].value)>>,
                     cat_args)
            ELSE Txt(<< >>, << >>)
        top_volume == SortDesc(volume_metrics, ValKeys(volume_metrics))[1]
        volume_part ==
            IF volume_metrics # << >> /\ HasCategory(top_volume)
            THEN Txt(<<"summary_high_volume">>, <<top_volume.category.s>>)
            ELSE Txt(<< >>, << >>)
        summary == Txt(growth_part.parts \o volume_part.parts,
                       growth_part.args \o volume_part.args)
    IN  IF parsed_metrics # << >> /\ summary.parts # << >>
        THEN summary ELSE BasicSummary(answer)

\* variant that measures the response before its markup is removed
_generate_executive_summary_rawLength(use_gemini, key, answer, parsed_metrics, outcome) ==
    IF /\ use_gemini /\ KeyTruthy(key) /\ ~outcome.raises
       /\ Len(Strip(outcome.text)) > SummaryMinLen
    THEN CollabText(CleanMarkup(outcome.text))
    ELSE FallbackExecutiveSummary(answer, parsed_metrics)

_generate_executive_summary(use_gemini, key, answer, parsed_metrics, outcome) ==
    IF /\ use_gemini /\ KeyTruthy(key) /\ ~outcome.raises
       /\ Len(CleanMarkup(outcome.text)) > SummaryMinLen
    THEN CollabText(CleanMarkup(outcome.text))
    ELSE FallbackExecutiveSummary(answer, parsed_metrics)

-----------------------------------------------------------------------------
(* ReportGenerator._generate_conclusion                                    *)

FallbackConclusion(answer) ==
    IF answer # << >> THEN
        LET cats == categories_mentioned(answer)
            la   == LowerText(answer)
            head == IF cats # << >> THEN <<"conclusion_including_categories">>
                    ELSE <<"conclusion_multiple_categories">>
            mid  == IF Contains(la, W_growth) \/ Contains(la, W_increase)
                    THEN <<"conclusion_growth_patterns">> ELSE << >>
        IN  Txt(head \o mid \o <<"conclusion_proactive", "conclusion_monitoring">>,
                Take(cats, 2))
    ELSE Txt(<<"conclusion_default">>, << >>)

_generate_conclusion(use_gemini, key, answer, outcome) ==
    IF /\ use_gemini /\ KeyTruthy(key) /\ ~outcome.raises
       /\ Len(CleanMarkup(outcome.text)) > ConclusionMinLen
    THEN CollabText(CleanMarkup(outcome.text))
    ELSE FallbackConclusion(answer)

-----------------------------------------------------------------------------
(* ReportGenerator._generate_detailed_insights                             *)

\* re.sub(r'^\d+[\.\)]\s*', '', line)
RemoveNumbering(line) ==
    LET d == RunEnd(line, 1, Digit)
    IN  IF d > 1 /\ d <= Len(line) /\ line[d] \in {".", ")"}
        THEN SubSeq(line, RunEnd(line, d + 1, Space), Len(line))
        ELSE line

\* one line of the response as the loop leaves it: stripped, numbering and
\* markup removed, stripped again
InsightLine(line) ==
    LET keep(c) == c \notin {"*", "#"}
    IN  Strip(SelectSeq(RemoveNumbering(Strip(line)), keep))

\* the lines the loop appends to insights: non-blank and, once cleaned,
\* longer than InsightMinLen
CollaboratorInsights(lines) ==
    LET usable(line) == Strip(line) # << >> /\ Len(InsightLine(line)) > InsightMinLen
        Cleaned(kept) == [i \in 1..Len(kept) |-> CollabText(InsightLine(kept[i]))]
    IN  Cleaned(SelectSeq(lines, usable))

\* Insight 1: the two strongest growth metrics compared
GrowthComparison(growth_metrics) ==
    IF Len(growth_metrics) >= 2 THEN
        LET Worded(top, second, comparison) ==
                IF HasCategory(top) /\ HasCategory(second)
                THEN <<Txt(<<"insight_comparative", comparison>>,
                           <<top.category.s, second.category.s>>)>>
                ELSE <<Txt(<<"insight_growth_rate", comparison>>, << >>)>>
            Graded(top, second, diff) ==
                Worded(top, second,
                       IF diff > Units(30) THEN "significantly higher"
                       ELSE IF diff > Units(15) THEN "notably higher"
                       ELSE "somewhat higher")
            Compared(top, second) ==
                Graded(top, second,
                       ScaledAbs(top.value) - ScaledAbs(second.value))
            TopTwo(sorted_growth) == Compared(sorted_growth[1], sorted_growth[2])
        IN  TopTwo(SortDesc(growth_metrics, AbsKeys(growth_metrics)))
    ELSE << >>

\* Insight 2: a high-growth category and whether it is also high-volume
GrowthVolume(growth_metrics, volume_metrics) ==
    IF growth_metrics # << >> /\ volume_metrics # << >> THEN
        LET high(m) == ScaledAbs(m.value) > Units(50)
            big(m)  == Scaled(m.value) > Units(300) /\ HasCategory(m)
            Sorted(hg) == SortDesc(hg, AbsKeys(hg))
            Named(cat_name, high_volume_cats) ==
                IF \E k \in 1..Len(high_volume_cats) :
                       high_volume_cats[k].category.s = cat_name
                THEN <<Txt(<<"insight_growth_and_volume">>, <<cat_name>>)>>
                ELSE <<Txt(<<"insight_emerging">>, <<cat_name>>)>>
            Matched(high_growth_cats, high_volume_cats) ==
                IF high_growth_cats # << >>
                THEN Named(high_growth_cats[1].category.s, high_volume_cats)
                ELSE << >>
        IN  Matched(SelectSeq(Sorted(SelectSeq(growth_metrics, high)),
                              HasCategory),
                    SelectSeq(volume_metrics, big))
    ELSE << >>

RECURSIVE SumScaled(_)
SumScaled(ms) ==
    IF ms = << >> THEN 0 ELSE Scaled(ms[1].value) + SumScaled(Tail(ms))

\* Insight 3: the share of the largest volume metric
VolumeShare(volume_metrics) ==
    IF volume_metrics # << >> /\ SumScaled(volume_metrics) > 0 THEN
        LET Worded(top_volume, share_desc) ==
                IF HasCategory(top_volume)
                THEN <<Txt(<<"insight_volume_category", share_desc>>,
                           <<top_volume.category.s>>)>>
                ELSE <<Txt(<<"insight_volume_leading", share_desc>>, << >>)>>
            \* percentage = top_volume.value / total_volume * 100
            Shared(top_volume, total_volume) ==
                Worded(top_volume,
                       IF Scaled(top_volume.value) * 100 > 40 * total_volume
                       THEN "a dominant share"
                       ELSE IF Scaled(top_volume.value) * 100 > 25 * total_volume
                       THEN "a substantial share"
                       ELSE "a notable share")
        IN  Shared(SortDesc(volume_metrics, ValKeys(volume_metrics))[1],
                   SumScaled(volume_metrics))
    ELSE << >>

\* Insight 4: three or more positive growth metrics
WidespreadGrowth(growth_metrics) ==
    LET positive(m) == Scaled(m.value) > 0
    IN  IF Len(growth_metrics) >= 3
           /\ Len(SelectSeq(growth_metrics, positive)) >= 3
        THEN <<Txt(<<"insight_widespread_growth">>, << >>)>>
        ELSE << >>

\* the code after the collaborator block, run on the list insights as the
\* collaborator block left it
FallbackInsights(insights, rationale, parsed_metrics) ==
    LET Patterns(growth_metrics, volume_metrics) ==
            IF parsed_metrics # << >>
            THEN insights \o GrowthComparison(growth_metrics)
                          \o GrowthVolume(growth_metrics, volume_metrics)
                          \o VolumeShare(volume_metrics)
                          \o WidespreadGrowth(growth_metrics)
            ELSE insights
        Contextual(growth_metrics) ==
            IF parsed_metrics # << >>
            THEN IF growth_metrics # << >>
                 THEN Txt(<<"insight_dynamic_landscape_long">>, << >>)
                 ELSE Txt(<<"insight_distribution_patterns">>, << >>)
            ELSE Txt(<<"insight_dynamic_landscape">>, << >>)
        Padded(patterns, contextual) ==
            IF Len(patterns) < InsightsNeeded THEN
                IF Len(patterns) + 1 < InsightsNeeded
                THEN patterns \o <<contextual,
                                   Txt(<<"insight_continuous_monitoring">>, << >>)>>
                ELSE patterns \o <<contextual>>
            ELSE patterns
        Kept(padded) ==
            IF padded # << >> THEN Take(padded, InsightsKept)
            ELSE [i \in 1..Len(Take(rationale, 3)) |->
                     Txt(<<"rationale">>, <<rationale[i]>>)]
        From(growth_metrics, volume_metrics) ==
            Kept(Padded(Patterns(growth_metrics, volume_metrics),
                        Contextual(growth_metrics)))
    IN  From(SelectSeq(parsed_metrics, IsGrowth),
             SelectSeq(parsed_metrics, IsVolume))

\* outcome.lines are the lines of the collaborator's response
_generate_detailed_insights(use_gemini, key, rationale, parsed_metrics, outcome) ==
    LET Decided(insights) ==
            IF Len(insights) >= InsightsNeeded
            THEN Take(insights, InsightsKept)
            ELSE FallbackInsights(insights, rationale, parsed_metrics)
    IN  Decided(IF use_gemini /\ KeyTruthy(key) /\ ~outcome.raises
                THEN CollaboratorInsights(outcome.lines) ELSE << >>)

-----------------------------------------------------------------------------
(* ReportGenerator._extract_key_takeaways                                  *)

Range(sq) == {sq[i] : i \in 1..Len(sq)}

\* the subsequence of t at the positions in idx, in order
AtPositions(t, idx) ==
    [k \in 1..Cardinality(idx) |->
        t[CHOOSE i \in idx : Cardinality({j \in idx : j <= i}) = k]]

\* v > n for a float v and a natural number n of the source
FloatGt(v, n) ==
    \/ v.kind = "inf" /\ ~v.neg
    \/ v.kind = "num" /\ ~v.neg /\ (v.ip > n \/ (v.ip = n /\ v.fp # << >>))

takeaway_categories ==
    << <<"R","e","c","r","e","a","t","i","o","n"," ","a","n","d"," ","l","e","i","s","u","r","e">>, <<"T","r","e","e","s">>, <<"R","o","a","d","s">>, <<"t","r","a","f","f","i","c"," ","a","n","d"," ","s","i","d","e","w","a","l","k","s">>,
       <<"E","n","g","i","n","e","e","r","i","n","g">>, <<"i","n","f","r","a","s","t","r","u","c","t","u","r","e"," ","a","n","d"," ","c","o","n","s","t","r","u","c","t","i","o","n">>, <<"B","u","i","l","d","i","n","g">>,
       <<"C","i","t","y"," ","G","e","n","e","r","a","l">> >>

full_categories ==
    << <<"R","e","c","r","e","a","t","i","o","n"," ","a","n","d"," ","l","e","i","s","u","r","e">>, <<"T","r","e","e","s">>, <<"R","o","a","d","s",","," ","t","r","a","f","f","i","c"," ","a","n","d"," ","s","i","d","e","w","a","l","k","s">>,
       <<"E","n","g","i","n","e","e","r","i","n","g",","," ","i","n","f","r","a","s","t","r","u","c","t","u","r","e"," ","a","n","d"," ","c","o","n","s","t","r","u","c","t","i","o","n">>, <<"B","u","i","l","d","i","n","g">>,
       <<"C","i","t","y"," ","G","e","n","e","r","a","l">> >>

\* the loop over common_categories from index k on: a category found in
\* the answer adds the first full name that contains it and is not yet listed
RECURSIVE FullCategories(_, _, _)
FullCategories(la, k, mentioned) ==
    IF k > Len(takeaway_categories) THEN mentioned
    ELSE LET cat   == LowerText(takeaway_categories[k])
             cands == {j \in 1..Len(full_categories) :
                          /\ Contains(LowerText(full_categories[j]), cat)
                          /\ full_categories[j] \notin Range(mentioned)}
         IN  FullCategories(la, k + 1,
                 IF Contains(la, cat) /\ cands # {}
                 THEN Append(mentioned, full_categories[MinPos(cands)])
                 ELSE mentioned)

W_top                == <<"t","o","p">>
W_significant        == <<"s","i","g","n","i","f","i","c","a","n","t">>
W_substantial_volume == <<"s","u","b","s","t","a","n","t","i","a","l"," ","v","o","l","u","m","e">>
W_significant_volume == <<"s","i","g","n","i","f","i","c","a","n","t"," ","v","o","l","u","m","e">>
W_substantial_growth == <<"s","u","b","s","t","a","n","t","i","a","l"," ","g","r","o","w","t","h">>
W_moderate_growth    == <<"m","o","d","e","r","a","t","e"," ","g","r","o","w","t","h">>
W_notable_growth     == <<"n","o","t","a","b","l","e"," ","g","r","o","w","t","h">>

\* end position of  \d+\.?\d*%  matched at the digit at position p, 0 when
\* it does not match there
PercentEnd(t, p) ==
    LET a == RunEnd(t, p, Digit)
    IN  IF a <= Len(t) /\ t[a] = "%" THEN a + 1
        ELSE IF a <= Len(t) /\ t[a] = "."
        THEN LET b == RunEnd(t, a + 1, Digit)
             IN  IF b <= Len(t) /\ t[b] = "%" THEN b + 1 ELSE 0
        ELSE 0

\* the word the rationale's substitution puts for a matched percentage
GrowthWord(number) ==
    IF FloatGt(ToFloat(number), 50) THEN W_substantial_growth
    ELSE IF FloatGt(ToFloat(number), 20) THEN W_moderate_growth
    ELSE W_notable_growth

\* re.sub(r'\d+\.?\d*%', ..., t): with 'significant' (answer) or, when
\* qualitative, with the word chosen by the matched value (rationale)
RECURSIVE SubPercent(_, _)
SubPercent(t, qualitative) ==
    LET starts == {p \in 1..Len(t) : t[p] \in Digit /\ PercentEnd(t, p) # 0}
    IN  IF starts = {} THEN t
        ELSE LET p == MinPos(starts)
                 e == PercentEnd(t, p)
             IN  SubSeq(t, 1, p - 1)
                 \o (IF qualitative THEN GrowthWord(SubSeq(t, p, e - 2))
                     ELSE W_significant)
                 \o SubPercent(SubSeq(t, e, Len(t)), qualitative)

\* end position of  \d+ requests?  matched at the digit at position p, or 0
RequestsEnd(t, p) ==
    LET a == RunEnd(t, p, Digit)
    IN  IF a <= Len(t) /\ t[a] = " " /\ LitAt(t, a + 1, W_request)
        THEN IF LitAt(t, a + 1, W_requests)
             THEN a + 1 + Len(W_requests) ELSE a + 1 + Len(W_request)
        ELSE 0

\* re.sub(r'\d+ requests?', w, t)
RECURSIVE SubRequests(_, _)
SubRequests(t, w) ==
    LET starts == {p \in 1..Len(t) : t[p] \in Digit /\ RequestsEnd(t, p) # 0}
    IN  IF starts = {} THEN t
        ELSE LET p == MinPos(starts)
             IN  SubSeq(t, 1, p - 1) \o w
                 \o SubRequests(SubSeq(t, RequestsEnd(t, p), Len(t)), w)

\* re.sub(r'\d+', '', t)
RemoveDigits(t) == AtPositions(t, {i \in 1..Len(t) : t[i] \notin Digit})

\* re.sub(r'\s+', ' ', t)
CollapseSpaces(t) ==
    LET kept == AtPositions(t, {i \in 1..Len(t) :
                    t[i] \notin Space \/ i = 1 \/ t[i - 1] \notin Space})
    IN  [i \in 1..Len(kept) |-> IF kept[i] \in Space THEN " " ELSE kept[i]]

\* re.sub(r'[,\s]+\.', '.', t)
TightenPeriods(t) ==
    LET CS == Space \cup {","}
        dropped(i) == /\ t[i] \in CS
                      /\ RunEnd(t, i, CS) <= Len(t)
                      /\ t[RunEnd(t, i, CS)] = "."
    IN  AtPositions(t, {i \in 1..Len(t) : ~dropped(i)})

\* the first sentence of the answer with its numbers taken out
AnswerSentence(answer) ==
    Strip(RemoveDigits(SubRequests(SubPercent(Strip(FirstSentence(answer)), FALSE),
                                   W_substantial_volume)))

\* one rationale item made qualitative
Qualitative(insight) ==
    TightenPeriods(Strip(CollapseSpaces(Strip(RemoveDigits(
        SubRequests(SubPercent(insight, TRUE), W_significant_volume))))))

\* the takeaway drawn from the answer, as a list of zero or one items
AnswerTakeaway(answer) ==
    IF answer = << >> THEN << >>
    ELSE LET Shortened(sentence) ==
                 IF Len(sentence) > 20
                 THEN <<Txt(<<"text">>, <<sentence \o <<".">> >>)>>
                 ELSE << >>
             Described(la, cats) ==
                 IF cats # << >>
                 THEN IF Contains(la, W_trending) \/ Contains(la, W_top)
                      THEN <<Txt(<<"takeaway_top_trending">>, Take(cats, 3))>>
                      ELSE <<Txt(<<"takeaway_notable_trends">>, Take(cats, 3))>>
                 ELSE Shortened(AnswerSentence(answer))
             Lowered(la) == Described(la, FullCategories(la, 1, << >>))
         IN  Lowered(LowerText(answer))

\* the loop over the rationale items
RECURSIVE AddQualitative(_, _)
AddQualitative(takeaways, insights) ==
    IF insights = << >> THEN takeaways
    ELSE LET Added(qualitative) ==
                 AddQualitative(
                     IF /\ insights[1] # << >>
                        /\ Len(qualitative) > 30
                        /\ Txt(<<"text">>, <<qualitative>>) \notin Range(takeaways)
                     THEN Append(takeaways, Txt(<<"text">>, <<qualitative>>))
                     ELSE takeaways,
                     Tail(insights))
         IN  Added(Qualitative(insights[1]))

\* max_items of _extract_key_takeaways
MaxTakeaways == 5

_extract_key_takeaways(answer, rationale) ==
    LET Extended(first) ==
            Take(AddQualitative(first, Take(rationale, MaxTakeaways - Len(first))),
                 MaxTakeaways)
    IN  Extended(AnswerTakeaway(answer))

-----------------------------------------------------------------------------
(* ReportGenerator._generate_recommendations                               *)

\* a recommendation: the keys it has, and their values
Rec(priority, description, impact) ==
    [isdict |-> TRUE, keys |-> {"priority", "description", "impact"},
     priority |-> priority, description |-> description, impact |-> impact]

rec_categories ==
    << <<"r","e","c","r","e","a","t","i","o","n">>, <<"t","r","e","e","s">>, <<"r","o","a","d","s">>, <<"e","n","g","i","n","e","e","r","i","n","g">>, <<"b","u","i","l","d","i","n","g">>,
       <<"c","i","t","y"," ","g","e","n","e","r","a","l">> >>

\* the fallback: one recommendation per insight, of the first four, that
\* mentions growth or volume
FallbackRecommendations(insights) ==
    LET first  == Take(insights, 4)
        low(k) == LowerText(first[k])
        grows(k) == Contains(low(k), W_growth) \/ Contains(low(k), W_increase)
        vols(k)  == Contains(low(k), W_volume) \/ Contains(low(k), W_requests)
        RecFor(k) ==
            IF grows(k) THEN
                LET hits == {j \in 1..Len(rec_categories) :
                                Contains(low(k), rec_categories[j])}
                IN  Rec(IF k = 1 THEN "HIGH" ELSE "MEDIUM",
                        Txt(<<"rec_increase_allocation">>,
                            IF hits # {}
                            THEN <<Title(rec_categories[MinPos(hits)])>>
                            ELSE << >>),
                        Txt(<<"impact_prevent_delays">>, << >>))
            ELSE Rec("MEDIUM", Txt(<<"rec_review_allocation">>, << >>),
                     Txt(<<"impact_efficiency">>, << >>))
    IN  AtPositions([k \in 1..Len(first) |-> RecFor(k)],
                    {k \in 1..Len(first) : grows(k) \/ vols(k)})

\* recommendations returned at most
MaxRecommendations == 6

\* outcome.parsed: the response held a JSON array that json.loads accepted;
\* outcome.items: the elements of that array
_generate_recommendations(use_gemini, key, insights, outcome) ==
    LET recommendations ==
            IF use_gemini /\ KeyTruthy(key) /\ ~outcome.raises /\ outcome.parsed
            THEN outcome.items ELSE << >>
    IN  Take(IF recommendations # << >> THEN recommendations
             ELSE FallbackRecommendations(insights), MaxRecommendations)

-----------------------------------------------------------------------------
(* Elements of the document story                                          *)

Paragraph(txt, style) == [el |-> "Paragraph", text |-> txt, style |-> style]
\* a literal paragraph of the source
Literal(words, style) == Paragraph(Txt(<<words>>, << >>), style)
\* f"<b>{i+1}.</b> {item}"
Numbered(i, txt, style) ==
    [el |-> "Paragraph", text |-> txt, style |-> style, number |-> i]
Spacer(height) == [el |-> "Spacer", height |-> height]
KeepTogether(items) == [el |-> "KeepTogether", items |-> items]
\* a one-cell table around a paragraph
CellTable(cell) == [el |-> "Table", items |-> <<cell>>]
DualBarChartFlowable(label, original_value, percent_increase) ==
    [el |-> "DualBarChartFlowable", label |-> label,
     original_value |-> original_value, percent_increase |-> percent_increase]
BarChartFlowable(label, value, unit) ==
    [el |-> "BarChartFlowable", label |-> label, value |-> value, unit |-> unit]

\* items with a Spacer of the given height after each
Interleave(items, height) ==
    [k \in 1..(2 * Len(items)) |->
        IF k % 2 = 1 THEN items[(k + 1) \div 2] ELSE Spacer(height)]

-----------------------------------------------------------------------------
(* generate_pdf: the Metrics Analysis section                              *)

IsSome(v) == v.kind # "none"
W_recent == <<"r","e","c","e","n","t">>

\* original_value of a bundle: which formula set it, and from which values
Derived(by, a, b) == [by |-> by, a |-> a, b |-> b]
NoDerived == Derived("none", NoneVal, NoneVal)

NewBundle(category) ==
    [category |-> category, growth |-> NoneVal, increase |-> NoneVal,
     recent_volume |-> NoneVal, original_value |-> NoDerived]

\* category_metrics[category][field] = value, creating the bundle if needed
Upsert(bundles, category, field, value) ==
    IF \E i \in 1..Len(bundles) : bundles[i].category = category
    THEN [i \in 1..Len(bundles) |->
             IF bundles[i].category = category
             THEN [bundles[i] EXCEPT ![field] = value] ELSE bundles[i]]
    ELSE Append(bundles, [NewBundle(category) EXCEPT ![field] = value])

RECURSIVE AddToBundles(_, _, _)
AddToBundles(bundles, metrics, field) ==
    IF metrics = << >> THEN bundles
    ELSE AddToBundles(Upsert(bundles, metrics[1].category.s, field,
                             metrics[1].value),
                      Tail(metrics), field)

\* the second loop: volume metrics whose text says recent, increase or
\* decrease join the lists unless their category is already there
RECURSIVE FromVolume(_, _, _)
FromVolume(volume_metrics, increase_metrics, recent_volume_metrics) ==
    IF volume_metrics = << >>
    THEN [increase |-> increase_metrics, recent |-> recent_volume_metrics]
    ELSE LET metric == volume_metrics[1]
             found(ms) == \E k \in 1..Len(ms) : ms[k].category = metric.category
             Sorted(lt) ==
                 IF Contains(lt, W_recent)
                 THEN FromVolume(Tail(volume_metrics), increase_metrics,
                          IF found(recent_volume_metrics) THEN recent_volume_metrics
                          ELSE Append(recent_volume_metrics, metric))
                 ELSE IF Contains(lt, W_increase) \/ Contains(lt, W_decrease)
                 THEN FromVolume(Tail(volume_metrics),
                          IF found(increase_metrics) THEN increase_metrics
                          ELSE Append(increase_metrics, metric),
                          recent_volume_metrics)
                 ELSE FromVolume(Tail(volume_metrics), increase_metrics,
                                 recent_volume_metrics)
         IN  Sorted(LowerText(metric.original_text))

\* the value -100.0
MinusHundred == [kind |-> "num", neg |-> TRUE, ip |-> 100, fp |-> << >>]

\* recent_volume / (1 + growth / 100) divides by zero
DividesByZero(b) ==
    /\ IsSome(b.recent_volume) /\ ~IsSome(b.increase)
    /\ b.growth = MinusHundred

\* the derivation of original_value for one bundle
DeriveOriginal(b) ==
    IF IsSome(b.recent_volume) /\ IsSome(b.increase)
    THEN [b EXCEPT !.original_value =
             Derived("recent_volume - increase", b.recent_volume, b.increase)]
    ELSE IF IsSome(b.recent_volume) /\ IsSome(b.growth)
    THEN IF Truthy(b.growth)
         THEN [b EXCEPT !.original_value =
                  Derived("recent_volume / (1 + growth / 100)",
                          b.recent_volume, b.growth)]
         ELSE [b EXCEPT !.original_value =
                  Derived("recent_volume", b.recent_volume, NoneVal)]
    ELSE IF IsSome(b.increase) /\ IsSome(b.growth)
    THEN IF Truthy(b.growth)
         THEN [b EXCEPT !.original_value =
                  Derived("increase / (growth / 100)", b.increase, b.growth)]
         ELSE [b EXCEPT !.original_value = Derived("0", NoneVal, NoneVal)]
    ELSE b

\* the bundles of the section, by category in order of first appearance
category_metrics(parsed_metrics) ==
    LET withCat(m) == HasCategory(m) /\ IsSome(m.value)
        isGrowth(m) == m.metric_type = "growth" /\ withCat(m)
        isVolume(m) == m.metric_type = "volume" /\ withCat(m)
        saysIncrease(m) ==
            withCat(m) /\ Contains(LowerText(m.original_text), W_increase)
        saysRecent(m) ==
            /\ withCat(m) /\ ~Contains(LowerText(m.original_text), W_increase)
            /\ Contains(LowerText(m.original_text), W_recent)
        Bundled(lists) ==
            AddToBundles(
                AddToBundles(
                    AddToBundles(<< >>, SelectSeq(parsed_metrics, isGrowth),
                                 "growth"),
                    lists.increase, "increase"),
                lists.recent, "recent_volume")
    IN  Bundled(FromVolume(SelectSeq(parsed_metrics, isVolume),
                           SelectSeq(parsed_metrics, saysIncrease),
                           SelectSeq(parsed_metrics, saysRecent)))

\* dual and simple bars shown at most
MaxBars == 10

\* DualCharts keeping every bundle that has a growth, with or without
\* original_value
DualCharts_growthOnly(bundles) ==
    LET derived == [i \in 1..Len(bundles) |-> DeriveOriginal(bundles[i])]
        valid(b) == IsSome(b.growth)
        keys(valid_categories) ==
            [i \in 1..Len(valid_categories) |->
                IF Truthy(valid_categories[i].growth)
                THEN ScaledAbs(valid_categories[i].growth) ELSE 0]
        Sorted(valid_categories) ==
            Take(SortDesc(valid_categories, keys(valid_categories)), MaxBars)
        Charts(sorted_categories) ==
            [i \in 1..Len(sorted_categories) |->
                DualBarChartFlowable(sorted_categories[i].category,
                                     sorted_categories[i].original_value,
                                     sorted_categories[i].growth)]
    IN  Charts(Sorted(SelectSeq(derived, valid)))

\* the dual bar charts: bundles with original_value and growth, by |growth|
DualCharts(bundles) ==
    LET derived == [i \in 1..Len(bundles) |-> DeriveOriginal(bundles[i])]
        valid(b) == b.original_value.by # "none" /\ IsSome(b.growth)
        keys(valid_categories) ==
            [i \in 1..Len(valid_categories) |->
                IF Truthy(valid_categories[i].growth)
                THEN ScaledAbs(valid_categories[i].growth) ELSE 0]
        Sorted(valid_categories) ==
            Take(SortDesc(valid_categories, keys(valid_categories)), MaxBars)
        Charts(sorted_categories) ==
            [i \in 1..Len(sorted_categories) |->
                DualBarChartFlowable(sorted_categories[i].category,
                                     sorted_categories[i].original_value,
                                     sorted_categories[i].growth)]
    IN  Charts(Sorted(SelectSeq(derived, valid)))

\* the loop adding volume bars whose category has no bar yet
RECURSIVE AddVolumeBars(_, _)
AddVolumeBars(metric_charts, metrics) ==
    IF metrics = << >> THEN metric_charts
    ELSE LET metric == metrics[1]
             already_added ==
                 \E k \in 1..Len(metric_charts) :
                     /\ metric_charts[k].el = "BarChartFlowable"
                     /\ metric_charts[k].label = metric.category.s
         IN  AddVolumeBars(
                 IF already_added THEN metric_charts
                 ELSE metric_charts \o <<BarChartFlowable(metric.category.s,
                                             metric.value, "requests"),
                                         Spacer(8)>>,
                 Tail(metrics))

\* the simple bars used when no dual bar was placed
SimpleCharts(parsed_metrics) ==
    LET isGrowth(m) == m.metric_type = "growth" /\ HasCategory(m) /\ IsSome(m.value)
        isVolume(m) == m.metric_type = "volume" /\ HasCategory(m) /\ IsSome(m.value)
        Top(growth_metrics) ==
            Take(SortDesc(growth_metrics, AbsKeys(growth_metrics)), MaxBars)
        Bars(top_growth) ==
            Interleave([i \in 1..Len(top_growth) |->
                           BarChartFlowable(top_growth[i].category.s,
                                            top_growth[i].value, "%")], 8)
        WithVolume(growth_charts, volume_metrics) ==
            IF volume_metrics # << >> /\ Len(growth_charts) < 5
            THEN AddVolumeBars(growth_charts,
                     Take(SortDesc(volume_metrics, ValKeys(volume_metrics)),
                          MaxBars))
            ELSE growth_charts
    IN  WithVolume(Bars(Top(SelectSeq(parsed_metrics, isGrowth))),
                   SelectSeq(parsed_metrics, isVolume))

\* the section: its elements, or raises when a derivation divides by zero
MetricsAnalysis(parsed_metrics) ==
    LET Placed(metric_charts) ==
            IF metric_charts # << >>
            THEN <<KeepTogether(metric_charts), Spacer(12)>>
            ELSE << >>
        Charts(dual) ==
            Placed(IF dual # << >> THEN dual ELSE SimpleCharts(parsed_metrics))
        Section(bundles) ==
            [raises |-> \E i \in 1..Len(bundles) : DividesByZero(bundles[i]),
             items  |-> <<Literal("Metrics Analysis", "heading_style")>>
                        \o Charts(Interleave(DualCharts(bundles), 10))]
    IN  Section(category_metrics(parsed_metrics))

-----------------------------------------------------------------------------
(* generate_pdf: the Supporting Data Analysis section                      *)

product_mapping ==
    << [name |-> <<"t","o","p","1","0","_","v","o","l","u","m","e","_","3","0","d">>,
        file |-> <<"t","o","p","1","0",".","c","s","v">>],
       [name |-> <<"b","a","c","k","l","o","g","_","r","a","n","k","e","d","_","l","i","s","t">>,
        file |-> <<"b","a","c","k","l","o","g","_","r","a","n","k","e","d","_","l","i","s","t",".","c","s","v">>],
       [name |-> <<"f","r","e","q","u","e","n","c","y","_","o","v","e","r","_","t","i","m","e">>,
        file |-> <<"f","r","e","q","u","e","n","c","y","_","o","v","e","r","_","t","i","m","e",".","c","s","v">>],
       [name |-> <<"p","r","i","o","r","i","t","y","_","q","u","a","d","r","a","n","t">>,
        file |-> <<"p","r","i","o","r","i","t","y","_","q","u","a","d","r","a","n","t","_","d","a","t","a","_","p","9","0",".","c","s","v">>],
       [name |-> <<"g","e","o","g","r","a","p","h","i","c","_","h","o","t","_","s","p","o","t","s">>,
        file |-> <<"g","e","o","g","r","a","p","h","i","c","_","h","o","t","_","s","p","o","t","s",".","c","s","v">>],
       [name |-> <<"t","i","m","e","_","t","o","_","c","l","o","s","e">>,
        file |-> <<"t","i","m","e","_","t","o","_","c","l","o","s","e",".","c","s","v">>],
       [name |-> <<"s","e","a","s","o","n","a","l","i","t","y","_","h","e","a","t","m","a","p">>,
        file |-> <<"s","e","a","s","o","n","a","l","i","t","y","_","h","e","a","t","m","a","p",".","c","s","v">>],
       [name |-> <<"b","a","c","k","l","o","g","_","d","i","s","t","r","i","b","u","t","i","o","n">>,
        file |-> <<"b","a","c","k","l","o","g","_","d","i","s","t","r","i","b","u","t","i","o","n",".","c","s","v">>] >>

title_mapping ==
    << [name |-> <<"t","o","p","1","0","_","v","o","l","u","m","e","_","3","0","d">>,
        title |-> <<"T","o","p"," ","1","0"," ","C","a","t","e","g","o","r","i","e","s"," ","b","y"," ","V","o","l","u","m","e"," ","(","L","a","s","t"," ","3","0"," ","D","a","y","s",")">>],
       [name |-> <<"b","a","c","k","l","o","g","_","r","a","n","k","e","d","_","l","i","s","t">>,
        title |-> <<"B","a","c","k","l","o","g"," ","A","n","a","l","y","s","i","s"," ","-"," ","U","r","g","e","n","t"," ","U","n","r","e","s","o","l","v","e","d"," ","I","t","e","m","s">>],
       [name |-> <<"f","r","e","q","u","e","n","c","y","_","o","v","e","r","_","t","i","m","e">>,
        title |-> <<"F","r","e","q","u","e","n","c","y"," ","O","v","e","r"," ","T","i","m","e"," ","-"," ","R","e","q","u","e","s","t"," ","T","r","e","n","d","s">>],
       [name |-> <<"p","r","i","o","r","i","t","y","_","q","u","a","d","r","a","n","t">>,
        title |-> <<"P","r","i","o","r","i","t","y"," ","Q","u","a","d","r","a","n","t"," ","A","n","a","l","y","s","i","s">>],
       [name |-> <<"g","e","o","g","r","a","p","h","i","c","_","h","o","t","_","s","p","o","t","s">>,
        title |-> <<"G","e","o","g","r","a","p","h","i","c"," ","H","o","t"," ","S","p","o","t","s"," ","A","n","a","l","y","s","i","s">>],
       [name |-> <<"t","i","m","e","_","t","o","_","c","l","o","s","e">>,
        title |-> <<"T","i","m","e"," ","t","o"," ","C","l","o","s","e"," ","A","n","a","l","y","s","i","s">>],
       [name |-> <<"s","e","a","s","o","n","a","l","i","t","y","_","h","e","a","t","m","a","p">>,
        title |-> <<"S","e","a","s","o","n","a","l","i","t","y"," ","H","e","a","t","m","a","p">>],
       [name |-> <<"b","a","c","k","l","o","g","_","d","i","s","t","r","i","b","u","t","i","o","n">>,
        title |-> <<"B","a","c","k","l","o","g"," ","D","i","s","t","r","i","b","u","t","i","o","n"," ","A","n","a","l","y","s","i","s">>] >>

W_csv      == <<".","c","s","v">>
W_analysis == <<"a","n","a","l","y","s","i","s">>

\* str.endswith
EndsWith(t, w) == Len(t) >= Len(w) /\ LitAt(t, Len(t) - Len(w) + 1, w)

\* the file name _find_product_file looks for
ProductFile(product_name) ==
    LET hits == {k \in 1..Len(product_mapping) :
                    product_mapping[k].name = product_name}
    IN  IF hits # {} THEN product_mapping[MinPos(hits)].file
        ELSE IF EndsWith(product_name, W_csv) THEN product_name
        ELSE product_name \o W_csv

\* files is the data directory: the set of files that exist, each with
\* whether read_csv succeeds on it and the table it then yields.
\* A file that exists in none of the four places is not found.
_find_product_file(product_name, files) ==
    {f \in files : f.file = ProductFile(product_name)}

\* the table loaded for a product, or none
_load_product_data(product_name, files) ==
    LET found == _find_product_file(product_name, files)
    IN  IF found = {} THEN [some |-> FALSE, df |-> NoTable]
        ELSE LET f == CHOOSE f \in found : TRUE
             IN  IF f.readable THEN [some |-> TRUE, df |-> f.df]
                 ELSE [some |-> FALSE, df |-> NoTable]

\* the strategy _generate_product_visualization dispatches to
Strategy(df) ==
    LET Dispatch(chart) ==
            IF chart = "line" THEN "_generate_line_chart"
            ELSE IF chart = "scatter" THEN "_generate_scatter_chart"
            ELSE IF chart = "pie" THEN "_generate_pie_chart"
            ELSE IF chart = "heatmap" THEN "_generate_heatmap_table"
            ELSE IF chart = "bar"
            THEN IF HasColumn(df, N_unresolved_count)
                 THEN "_generate_backlog_table"
                 ELSE IF HasColumn(df, N_ranking_type)
                 THEN "_generate_top10_volume_chart"
                 ELSE "_generate_bar_chart_generic"
            ELSE "_generate_generic_table"
    IN  Dispatch(_detect_chart_type(df))

\* the drawable elements of one product: none when the table is missing or
\* empty, else what the selected strategy draws
_generate_product_visualization(product_name, files) ==
    LET Drawn(loaded) ==
            IF ~loaded.some \/ DfEmpty(loaded.df) THEN << >>
            ELSE <<[el |-> "Visualization", strategy |-> Strategy(loaded.df),
                    df |-> loaded.df]>>
    IN  Drawn(_load_product_data(product_name, files))

\* product_name.replace('_', ' ')
Underscores(t) == [i \in 1..Len(t) |-> IF t[i] = "_" THEN " " ELSE t[i]]

\* the heading of a product's subsection
section_title(product_name) ==
    LET hits == {k \in 1..Len(title_mapping) :
                    title_mapping[k].name = product_name}
        made == Title(Underscores(product_name))
    IN  IF hits # {} THEN title_mapping[MinPos(hits)].title
        ELSE IF Contains(LowerText(made), W_analysis) THEN made
        ELSE made \o <<" ","A","n","a","l","y","s","i","s">>

\* what one product entry with a non-empty name contributes
products_content(product_name, files) ==
    LET Drawn(viz_items) ==
            IF viz_items # << >> THEN viz_items \o <<Spacer(20)>> ELSE << >>
    IN  <<Paragraph(Txt(<<"section_title">>, <<section_title(product_name)>>),
                    "heading_style"),
          Spacer(12)>>
        \o Drawn(_generate_product_visualization(product_name, files))

\* the loop over the product entries
RECURSIVE ProductLoop(_, _, _)
ProductLoop(products, files, first_chart_added) ==
    IF products = << >> THEN << >>
    ELSE LET Entry(product_name, content) ==
                 IF product_name # << >> /\ Len(content) > 1
                 THEN <<KeepTogether(
                           IF first_chart_added THEN content
                           ELSE <<Spacer(20),
                                  Literal("Supporting Data Analysis",
                                          "heading_style"),
                                  Spacer(12)>> \o content)>>
                      \o ProductLoop(Tail(products), files, TRUE)
                 ELSE ProductLoop(Tail(products), files, first_chart_added)
         IN  Entry(products[1].product,
                   products_content(products[1].product, files))

\* variant that writes the section heading whenever products is non-empty
SupportingDataAnalysis_headingFirst(products, files) ==
    IF products = << >> THEN << >>
    ELSE <<KeepTogether(<<Spacer(20),
                          Literal("Supporting Data Analysis", "heading_style"),
                          Spacer(12)>>)>>
         \o ProductLoop(products, files, TRUE)

SupportingDataAnalysis(products, files) == ProductLoop(products, files, FALSE)

-----------------------------------------------------------------------------
(* ReportGenerator.generate_pdf                                            *)

\* MetricParser.parse_all
parse_all(metric_strings) ==
    [i \in 1..Len(metric_strings) |-> ParseMetric(metric_strings[i])]
\* m.value is not None
IsValid(m) == m.value.kind # "none"

\* data.get(key, default): data.has is the set of keys the payload holds
Get(data, key, default) == IF key \in data.has THEN data[key] ELSE default

\* rec.get('priority', 'MEDIUM'), rec.get('description', ''), rec.get('impact', '')
RecParagraph(i, rec) ==
    [el |-> "Paragraph", style |-> "recommendation_style", number |-> i,
     priority |-> IF "priority" \in rec.keys THEN rec.priority ELSE "MEDIUM",
     text     |-> IF "description" \in rec.keys THEN rec.description
                  ELSE Txt(<< >>, << >>),
     impact   |-> IF "impact" \in rec.keys THEN rec.impact
                  ELSE Txt(<< >>, << >>)]

TitleBlock ==
    << Paragraph(Txt(<<"self.title">>, << >>), "title_style"),
       Spacer(4),
       Paragraph(Txt(<<"self.subtitle">>, << >>), "subtitle_style"),
       CellTable(Literal("", "Divider")),
       Spacer(20) >>

\* a heading, a paragraph and a spacer kept together
TextSection(heading, txt) ==
    << KeepTogether(<< Literal(heading, "heading_style"),
                       Paragraph(txt, "summary_style"),
                       Spacer(20) >>) >>

\* a heading and numbered items kept together; nothing for an empty list
ListSection(heading, items, style) ==
    IF items = << >> THEN << >>
    ELSE << KeepTogether(
               <<Literal(heading, "heading_style")>>
               \o Interleave([i \in 1..Len(items) |->
                                 Numbered(i, items[i], style)], 8)
               \o <<Spacer(12)>>) >>

RecommendationsSection(recommendations) ==
    IF recommendations = << >> THEN << >>
    ELSE << KeepTogether(
               <<Literal("Recommendations", "heading_style")>>
               \o Interleave([i \in 1..Len(recommendations) |->
                       CellTable(RecParagraph(i, recommendations[i]))], 10)
               \o <<Spacer(8)>>) >>

\* the raw list shown when key_metrics is non-empty and nothing was parsed
KeyMetricsSection(key_metrics) ==
    <<Literal("Key Metrics", "heading_style")>>
    \o [i \in 1..Len(key_metrics) |->
           CellTable(Paragraph(Txt(<<"text">>, <<key_metrics[i]>>),
                               "metric_label_style"))]
    \o <<Spacer(20)>>

MethodologySection(parsed_metrics) ==
    LET isGrowth(m) == m.metric_type = "growth"
        isVolume(m) == m.metric_type = "volume"
        growth_count == Len(SelectSeq(parsed_metrics, isGrowth))
        volume_count == Len(SelectSeq(parsed_metrics, isVolume))
        analyzed ==
            IF growth_count > 0 \/ volume_count > 0
            THEN <<Txt(<<"Metrics Analyzed">>
                       \o (IF growth_count > 0
                           THEN <<ToString(growth_count), "growth rate metric">>
                           ELSE << >>)
                       \o (IF volume_count > 0
                           THEN <<ToString(volume_count), "volume metric">>
                           ELSE << >>), << >>)>>
            ELSE << >>
        methodology_items ==
            << Txt(<<"Data Sources">>, << >>),
               Txt(<<"Analysis Period">>, << >>),
               Txt(<<"Metrics Calculation">>, << >>) >>
            \o analyzed \o <<Txt(<<"Insights Generation">>, << >>)>>
    IN  << KeepTogether(
              <<Literal("Methodology", "heading_style")>>
              \o [i \in 1..Len(methodology_items) |->
                     CellTable(Paragraph(methodology_items[i],
                                         "methodology_style"))]) >>

FooterBlock ==
    << Spacer(20),
       Literal("Report generated by CRM Analytics System", "footer_style") >>

\* variant that places the recommendations before the detailed insights
Assemble_recommendationsFirst(s) ==
    s.title \o s.introduction \o s.executive_summary \o s.key_takeaways
    \o s.metrics \o s.recommendations \o s.detailed_insights \o s.products
    \o s.conclusion \o s.methodology \o s.footer

\* the story in the order generate_pdf appends its sections
Assemble(s) ==
    s.title \o s.introduction \o s.executive_summary \o s.key_takeaways
    \o s.metrics \o s.detailed_insights \o s.recommendations \o s.products
    \o s.conclusion \o s.methodology \o s.footer

Returned(story) == [status |-> "returned", error |-> "", story |-> story]
Failed(status, error) == [status |-> status, error |-> error, story |-> << >>]

\* the sections of the story, from the values generate_pdf has computed
Sections(self, answer, rationale, products, files, outcomes, parsed_metrics, valid, metrics, recommendations, conclusion_outcome) ==
    [title |-> TitleBlock,
     introduction |->
         TextSection("Introduction",
             _generate_introduction(self.use_gemini, self.gemini_api_key,
                                    answer, outcomes.introduction)),
     executive_summary |->
         TextSection("Executive Summary",
             _generate_executive_summary(self.use_gemini,
                 self.gemini_api_key, answer, valid,
                 outcomes.executive_summary)),
     key_takeaways |->
         ListSection("Key Takeaways",
                     _extract_key_takeaways(answer, rationale),
                     "takeaways_style"),
     metrics |-> metrics.items,
     detailed_insights |->
         ListSection("Detailed Insights",
             _generate_detailed_insights(self.use_gemini,
                 self.gemini_api_key, rationale, valid,
                 outcomes.detailed_insights),
             "insight_style"),
     recommendations |-> RecommendationsSection(recommendations),
     products |-> SupportingDataAnalysis(products, files),
     conclusion |->
         TextSection("Conclusion",
             _generate_conclusion(self.use_gemini, self.gemini_api_key,
                                  answer, conclusion_outcome)),
     methodology |-> MethodologySection(parsed_metrics),
     footer |-> FooterBlock]

\* the Metrics Analysis section, or the raw list when key_metrics is
\* non-empty and nothing was parsed
MetricsSection(key_metrics, parsed_metrics) ==
    IF parsed_metrics # << >> THEN MetricsAnalysis(parsed_metrics)
    ELSE IF key_metrics # << >>
    THEN [raises |-> FALSE, items |-> KeyMetricsSection(key_metrics)]
    ELSE [raises |-> FALSE, items |-> << >>]

\* r.get(...) on an element that is no dict raises inside the try of
\* _generate_conclusion
ConclusionOutcome(recommendations, outcome) ==
    IF \E i \in 1..Len(Take(recommendations, 3)) : ~recommendations[i].isdict
    THEN [outcome EXCEPT !.raises = TRUE]
    ELSE outcome

\* the exceptions that leave generate_pdf, else the document
Outcome_generate_pdf(parsed_metrics, metrics, recommendations, sections) ==
    IF \E i \in 1..Len(parsed_metrics) : parsed_metrics[i].raised
    THEN Failed("raised", "OverflowError")
    ELSE IF metrics.raises THEN Failed("raised", "ZeroDivisionError")
    ELSE IF \E i \in 1..Len(recommendations) : ~recommendations[i].isdict
    THEN Failed("raised", "AttributeError")
    ELSE Returned(Assemble(sections))

\* generate_pdf once the metrics are parsed and the recommendations made
Story(self, answer, rationale, key_metrics, products, files, outcomes, parsed_metrics, metrics, recommendations) ==
    Outcome_generate_pdf(parsed_metrics, metrics, recommendations,
        Sections(self, answer, rationale, products, files, outcomes,
                 parsed_metrics, SelectSeq(parsed_metrics, IsValid), metrics,
                 recommendations,
                 ConclusionOutcome(recommendations, outcomes.conclusion)))

\* generate_pdf once the payload is read and the metrics are parsed
Rendered(self, answer, rationale, key_metrics, products, files, outcomes, parsed_metrics) ==
    Story(self, answer, rationale, key_metrics, products, files, outcomes,
          parsed_metrics, MetricsSection(key_metrics, parsed_metrics),
          _generate_recommendations(self.use_gemini, self.gemini_api_key,
                                    rationale, outcomes.recommendations))

\* if key_metrics: parser.parse_all(key_metrics), else nothing
ParsedMetrics(key_metrics) ==
    IF key_metrics # << >> THEN parse_all(key_metrics) ELSE << >>

\* self is the generator, files the data directory, outcomes what the
\* collaborator does at each of the five requests.  reportlab is installed.
generate_pdf(self, data, files, outcomes) ==
    Rendered(self, Get(data, "answer", << >>), Get(data, "rationale", << >>),
             Get(data, "key_metrics", << >>), Get(data, "products", << >>),
             files, outcomes,
             ParsedMetrics(Get(data, "key_metrics", << >>)))

\* the calls of _generate_product_visualization in the loop over the
\* products: one for every entry with a product name, in order
LookedUp(products) ==
    LET named(entry) == entry.product # << >>
        Names(entries) == [i \in 1..Len(entries) |-> entries[i].product]
    IN  Names(SelectSeq(products, named))

\* the datasets one generate_pdf looked up: the loop runs after everything
\* that can raise
Lookups(report, data) ==
    IF report.status = "returned"
    THEN LookedUp(Get(data, "products", << >>)) ELSE << >>

\* ReportGenerator.generate
generate(self, data, files, outcomes) == generate_pdf(self, data, files, outcomes)

-----------------------------------------------------------------------------
(* Specification of the narrative synthesizer: one section generated once  *)

\* the character c repeated n times
Rep(c, n) == [i \in 1..n |-> c]

Answers ==
    { << >>,
      <<"T","r","e","e","s"," ","a","n","d"," ","R","o","a","d","s"," ","a","r","e"," ","t","r","e","n","d","i","n","g">>,
      <<"V","o","l","u","m","e"," ","r","o","s","e"," ","b","y"," ","1","2","0"," ","r","e","q","u","e","s","t","s","."," ","N","o"," ","c","h","a","n","g","e">>,
      <<"G","r","o","w","t","h"," ","i","n"," ","c","i","t","y"," ","g","e","n","e","r","a","l",","," ","b","u","i","l","d","i","n","g",","," ","t","r","e","e","s"," ","a","n","d"," ","e","n","g","i","n","e","e","r","i","n","g">> }

Rationales == { << >>, << <<"T","r","e","e","s"," ","r","o","s","e"," ","7","3",".","1","%">> >> }

\* metric strings whose parsed forms the sections receive
MetricSamples ==
    { <<"7","3",".","1","%"," ","g","r","o","w","t","h"," ","i","n"," ","T","r","e","e","s">>,
      <<"4","5","%"," ","i","n","c","r","e","a","s","e"," ","i","n"," ","R","o","a","d","s">>,
      <<"-","9","0","%"," ","g","r","o","w","t","h"," ","i","n"," ","P","a","r","k","s">>,
      <<"6","6","3"," ","r","e","q","u","e","s","t","s"," ","i","n"," ","T","r","e","e","s">>,
      <<"1","2","0"," ","r","e","q","u","e","s","t","s"," ","f","o","r"," ","R","o","a","d","s">> }

ParsedSamples == {ParseMetric(ms) : ms \in MetricSamples}

RECURSIVE SeqsUpTo(_, _)
SeqsUpTo(S, n) ==
    IF n = 0 THEN { << >> }
    ELSE LET shorter == SeqsUpTo(S, n - 1)
         IN  shorter \cup {Append(sq, x) : sq \in {r \in shorter : Len(r) = n - 1},
                                            x \in S}

\* longest list of parsed metrics
MaxMetrics == 3
ParsedLists == SeqsUpTo(ParsedSamples, MaxMetrics)

\* texts the collaborator may return for a paragraph section: around both
\* thresholds, with and without markup and surrounding blanks
ResponseTexts ==
    { << >>, <<" ", " ">>,
      Rep("a", IntroMinLen), Rep("a", IntroMinLen + 1),
      Rep("a", SummaryMinLen), Rep("a", SummaryMinLen + 1),
      <<"*", "*">> \o Rep("a", IntroMinLen) \o <<"*", "*">>,
      <<"#", " ">> \o Rep("a", IntroMinLen + 1),
      <<" ">> \o Rep("a", SummaryMinLen) \o <<"*">> \o <<" ">>,
      Rep("a", IntroMinLen) \o <<"*">> \o Rep("b", IntroMinLen + 1) }

\* lines the collaborator may return for the insights list
ResponseLines ==
    { <<"1", ".", " ">> \o Rep("a", InsightMinLen + 1),
      <<"2", ")", "*", "*">> \o Rep("b", InsightMinLen) \o <<"*", "*">>,
      <<"#", " ">> \o Rep("c", InsightMinLen + 1) \o <<" ">> }

\* longest response, in lines
MaxLines == 4

\* what the collaborator does at one request: it raises, or returns a
\* response with this text (its lines, for a list; for recommendations,
\* whether a JSON array was found and loaded, and its elements)
Outcome(raises, txt, lines, loaded, items) ==
    [called |-> TRUE, raises |-> raises, text |-> txt, lines |-> lines,
     parsed |-> loaded, items |-> items]
NoCall == [Outcome(FALSE, << >>, << >>, FALSE, << >>) EXCEPT !.called = FALSE]
Raised == Outcome(TRUE, << >>, << >>, FALSE, << >>)
ParagraphOutcomes ==
    {Raised} \cup {Outcome(FALSE, t, << >>, FALSE, << >>) : t \in ResponseTexts}
ListOutcomes ==
    {Raised} \cup {Outcome(FALSE, << >>, ls, FALSE, << >>) :
                      ls \in SeqsUpTo(ResponseLines, MaxLines)}

\* ReportGenerator(use_gemini, gemini_api_key)
Generators ==
    [use_gemini : BOOLEAN, gemini_api_key : {"None", "", "key"}]

NoInput == [answer |-> << >>, rationale |-> << >>, parsed_metrics |-> << >>]

NarrIdle ==
    /\ gen = [use_gemini |-> FALSE, gemini_api_key |-> "None"]
    /\ ninput = NoInput
    /\ section = "none"
    /\ response = NoCall
    /\ narrative = << >>
    /\ nstatus = "idle"

\* each section is given the arguments its function takes
NarrStart ==
    /\ gen \in Generators
    /\ section \in {"introduction", "executive_summary", "conclusion",
                    "detailed_insights"}
    /\ ninput \in
         IF section \in {"introduction", "conclusion"}
         THEN [answer : Answers, rationale : {<< >>}, parsed_metrics : {<< >>}]
         ELSE IF section = "executive_summary"
         THEN [answer : Answers, rationale : {<< >>}, parsed_metrics : ParsedLists]
         ELSE [answer : {<< >>}, rationale : Rationales, parsed_metrics : ParsedLists]
    /\ response = NoCall
    /\ narrative = << >>
    /\ nstatus = "ready"

\* the collaborator is called only by an enabled generator holding a key
Calls == gen.use_gemini /\ KeyTruthy(gen.gemini_api_key)

GenerateIntroduction ==
    /\ nstatus = "ready" /\ section = "introduction"
    /\ \E outcome \in IF Calls THEN ParagraphOutcomes ELSE {NoCall} :
          /\ response' = outcome
          /\ narrative' = <<_generate_introduction(gen.use_gemini,
                               gen.gemini_api_key, ninput.answer, outcome)>>
    /\ nstatus' = "done"
    /\ UNCHANGED <<gen, ninput, section>>
    /\ UNCHANGED exceptNarr

GenerateExecutiveSummary ==
    /\ nstatus = "ready" /\ section = "executive_summary"
    /\ \E outcome \in IF Calls THEN ParagraphOutcomes ELSE {NoCall} :
          /\ response' = outcome
          /\ narrative' = <<_generate_executive_summary(gen.use_gemini,
                               gen.gemini_api_key, ninput.answer,
                               ninput.parsed_metrics, outcome)>>
    /\ nstatus' = "done"
    /\ UNCHANGED <<gen, ninput, section>>
    /\ UNCHANGED exceptNarr

GenerateConclusion ==
    /\ nstatus = "ready" /\ section = "conclusion"
    /\ \E outcome \in IF Calls THEN ParagraphOutcomes ELSE {NoCall} :
          /\ response' = outcome
          /\ narrative' = <<_generate_conclusion(gen.use_gemini,
                               gen.gemini_api_key, ninput.answer, outcome)>>
    /\ nstatus' = "done"
    /\ UNCHANGED <<gen, ninput, section>>
    /\ UNCHANGED exceptNarr

GenerateDetailedInsights ==
    /\ nstatus = "ready" /\ section = "detailed_insights"
    /\ \E outcome \in IF Calls THEN ListOutcomes ELSE {NoCall} :
          /\ response' = outcome
          /\ narrative' = _generate_detailed_insights(gen.use_gemini,
                              gen.gemini_api_key, ninput.rationale,
                              ninput.parsed_metrics, outcome)
    /\ nstatus' = "done"
    /\ UNCHANGED <<gen, ninput, section>>
    /\ UNCHANGED exceptNarr

-----------------------------------------------------------------------------
(* Properties of the narrative synthesizer                                 *)

\* the acceptance threshold of a paragraph section
Threshold(sec) ==
    IF sec = "executive_summary" THEN SummaryMinLen
    ELSE IF sec = "introduction" THEN IntroMinLen ELSE ConclusionMinLen

\* what the section's function yields for the same inputs with the
\* collaborator disabled
Deterministic(sec, in) ==
    IF sec = "introduction"
    THEN <<_generate_introduction(FALSE, "None", in.answer, NoCall)>>
    ELSE IF sec = "executive_summary"
    THEN <<_generate_executive_summary(FALSE, "None", in.answer,
                                       in.parsed_metrics, NoCall)>>
    ELSE IF sec = "conclusion"
    THEN <<_generate_conclusion(FALSE, "None", in.answer, NoCall)>>
    ELSE _generate_detailed_insights(FALSE, "None", in.rationale,
                                     in.parsed_metrics, NoCall)

\* the collaborator was enabled, held a credential, returned, and its
\* markup-stripped text is longer than the section's threshold
Accepted ==
    /\ gen.use_gemini /\ KeyTruthy(gen.gemini_api_key)
    /\ response.called /\ ~response.raises
    /\ Len(CleanMarkup(response.text)) > Threshold(section)

\* C4: for the introduction, executive summary and conclusion, the section
\* text is the collaborator's markup-stripped text exactly when the
\* collaborator is enabled, holds a credential, returned without raising and
\* the stripped text is longer than the section's threshold (50, 100, 50);
\* otherwise it is the text the section yields with the collaborator
\* disabled; the section never ends by raising.
C4_CollaboratorOrFallback ==
    /\ nstatus # "raised"
    /\ (nstatus = "done" /\ section \in {"introduction", "executive_summary",
                                         "conclusion"}) =>
          IF Accepted
          THEN narrative = <<CollabText(CleanMarkup(response.text))>>
          ELSE narrative = Deterministic(section, ninput)

\* an executive summary whose response was longer than the threshold only
\* with its markup and blanks, and so was replaced by the fallback
C4_Witness ==
    /\ nstatus = "done" /\ section = "executive_summary"
    /\ gen.use_gemini /\ KeyTruthy(gen.gemini_api_key)
    /\ response.called /\ ~response.raises
    /\ Len(response.text) > SummaryMinLen
    /\ Len(CleanMarkup(response.text)) = SummaryMinLen
    /\ ninput.parsed_metrics # << >>
    /\ narrative = Deterministic(section, ninput)

\* C5: the list _generate_detailed_insights returns is either made only of
\* collaborator lines or equal to the list the fallback produces with the
\* collaborator disabled.
C5_AllOrNothing ==
    (nstatus = "done" /\ section = "detailed_insights") =>
        \/ \A i \in 1..Len(narrative) : narrative[i].parts = <<"collaborator">>
        \/ narrative = Deterministic(section, ninput)

-----------------------------------------------------------------------------
(* Specification of the entry points: one call on one payload              *)

RequiredFields == {"answer", "rationale", "key_metrics"}

PdfAnswers ==
    << <<"T","r","e","e","s"," ","a","n","d"," ","R","o","a","d","s"," ","a","r","e"," ","t","r","e","n","d","i","n","g">>,
      <<"V","o","l","u","m","e"," ","r","o","s","e"," ","b","y"," ","1","2","0"," ","r","e","q","u","e","s","t","s","."," ","S","t","a","b","l","e">> >>

PdfRationales ==
    << << <<"T","r","e","e","s"," ","r","o","s","e"," ","7","3",".","1","%"," ","g","r","o","w","t","h">>, <<"R","o","a","d","s"," ","h","a","d"," ","1","2","0"," ","r","e","q","u","e","s","t","s"," ","l","a","s","t"," ","m","o","n","t","h",","," ","u","p">> >> >>

\* key_metrics lists: bundles with and without an original value, a metric
\* without a value, a growth of -100% beside a recent volume, and a number
\* too long for a float
KeyMetricLists ==
    << << <<"7","3",".","1","%"," ","g","r","o","w","t","h"," ","i","n"," ","T","r","e","e","s">>, <<"2","8","0"," ","r","e","q","u","e","s","t","s"," ","i","n","c","r","e","a","s","e"," ","i","n"," ","T","r","e","e","s">> >>,
      << <<"6","6","3"," ","r","e","q","u","e","s","t","s"," ","i","n"," ","T","r","e","e","s">>, <<"1","2","%"," ","g","r","o","w","t","h"," ","i","n"," ","R","o","a","d","s">> >>,
      << <<"n","o"," ","d","a","t","a">> >>,
      << <<"-","1","0","0","%"," ","g","r","o","w","t","h"," ","i","n"," ","P","a","r","k","s">>, <<"5","0"," ","r","e","c","e","n","t"," ","r","e","q","u","e","s","t","s"," ","i","n"," ","P","a","r","k","s">> >>,
      << LongRun \o <<" ","r","e","q","u","e","s","t","s">> >> >>

ProductEntries ==
    << [product |-> <<"t","o","p","1","0","_","v","o","l","u","m","e","_","3","0","d">>, why |-> <<"v","o","l","u","m","e","s">>],
      [product |-> <<"m","e","t","r","i","c","s","_","a","n","a","l","y","s","i","s">>, why |-> << >>],
      [product |-> << >>, why |-> << >>] >>

\* longest products list
MaxProducts == 2

T_top10 ==
    [rows |-> 1,
     columns |-> << [name |-> N_rank, numeric |-> TRUE],
                    [name |-> N_ranking_type, numeric |-> FALSE],
                    [name |-> N_category, numeric |-> FALSE],
                    [name |-> N_primary_metric, numeric |-> TRUE],
                    [name |-> N_secondary_metric, numeric |-> TRUE] >>]
T_values ==
    [rows |-> 1,
     columns |-> << [name |-> N_Category, numeric |-> FALSE],
                    [name |-> N_value, numeric |-> TRUE] >>]

\* data directories: empty; both files present, one of them without rows;
\* one file unreadable.  metrics_analysis is a product outside the mapping,
\* looked up as metrics_analysis.csv and titled "Metrics Analysis"
Directories ==
    << {},
      { [file |-> <<"t","o","p","1","0",".","c","s","v">>, readable |-> TRUE, df |-> T_top10],
        [file |-> <<"m","e","t","r","i","c","s","_","a","n","a","l","y","s","i","s",".","c","s","v">>, readable |-> TRUE,
         df |-> [T_values EXCEPT !.rows = 0]] },
      { [file |-> <<"t","o","p","1","0",".","c","s","v">>, readable |-> FALSE, df |-> NoTable],
        [file |-> <<"m","e","t","r","i","c","s","_","a","n","a","l","y","s","i","s",".","c","s","v">>, readable |-> TRUE, df |-> T_values] } >>

Fields == {"answer", "rationale", "key_metrics", "products"}

\* a payload holding the given fields
PayloadOf(present, a, r, k, pr) ==
    [has |-> present,
     answer      |-> IF "answer" \in present THEN a ELSE << >>,
     rationale   |-> IF "rationale" \in present THEN r ELSE << >>,
     key_metrics |-> IF "key_metrics" \in present THEN k ELSE << >>,
     products    |-> IF "products" \in present THEN pr ELSE << >>]

\* the payloads with the data directory each is rendered against: every
\* combination of present and absent fields; every key_metrics list; every
\* products list against every directory
Cases ==
    { [payload |-> PayloadOf(present, PdfAnswers[2], PdfRationales[1],
                             KeyMetricLists[1], <<ProductEntries[1]>>),
       datasets |-> Directories[2]] : present \in SUBSET Fields }
    \cup
    { [payload |-> PayloadOf(Fields, PdfAnswers[1], PdfRationales[1],
                             KeyMetricLists[k], <<ProductEntries[1]>>),
       datasets |-> Directories[2]] : k \in 1..Len(KeyMetricLists) }
    \cup
    { [payload |-> PayloadOf(Fields, PdfAnswers[1], PdfRationales[1],
                             KeyMetricLists[1], pr),
       datasets |-> d] :
        pr \in SeqsUpTo(Range(ProductEntries), MaxProducts),
        d \in Range(Directories) }

NoPayload == [has |-> {}, answer |-> << >>, rationale |-> << >>,
              key_metrics |-> << >>, products |-> << >>]

\* ReportGenerator(): the defaults of the constructor
DefaultGenerator == [use_gemini |-> FALSE, gemini_api_key |-> "None"]
PdfGenerators ==
    { DefaultGenerator,
      [use_gemini |-> TRUE, gemini_api_key |-> "None"],
      [use_gemini |-> TRUE, gemini_api_key |-> "key"] }

\* the five requests of one generate_pdf
NoCalls ==
    [recommendations |-> NoCall, introduction |-> NoCall,
     executive_summary |-> NoCall, conclusion |-> NoCall,
     detailed_insights |-> NoCall]

Said(txt) == Outcome(FALSE, txt, << >>, FALSE, << >>)
Listed(lines) == Outcome(FALSE, << >>, lines, FALSE, << >>)
Loaded(items) == Outcome(FALSE, << >>, << >>, TRUE, items)
UsableLine == <<"1", ".", " ">> \o Rep("a", InsightMinLen + 1)

\* what the collaborator may do over the five requests: raise every time;
\* answer every request acceptably; answer too briefly; return a JSON array
\* whose element is not an object
CollaboratorRuns ==
    { [recommendations |-> Raised, introduction |-> Raised,
       executive_summary |-> Raised, conclusion |-> Raised,
       detailed_insights |-> Raised],
      [recommendations |->
           Loaded(<< [isdict |-> TRUE, keys |-> {"description"},
                      priority |-> "MEDIUM",
                      description |-> CollabText(<<"a","d","d"," ","s","t","a","f","f">>),
                      impact |-> Txt(<< >>, << >>)] >>),
       introduction |-> Said(Rep("a", IntroMinLen + 1)),
       executive_summary |-> Said(Rep("a", SummaryMinLen + 1)),
       conclusion |-> Said(Rep("a", ConclusionMinLen + 1)),
       detailed_insights |-> Listed(<<UsableLine, UsableLine, UsableLine>>)],
      [recommendations |-> Outcome(FALSE, << >>, << >>, FALSE, << >>),
       introduction |-> Said(Rep("a", IntroMinLen)),
       executive_summary |-> Said(Rep("a", SummaryMinLen)),
       conclusion |-> Said(<< >>),
       detailed_insights |-> Listed(<<UsableLine>>)],
      [recommendations |->
           Loaded(<< [isdict |-> FALSE, keys |-> {}, priority |-> "",
                      description |-> Txt(<< >>, << >>),
                      impact |-> Txt(<< >>, << >>)] >>),
       introduction |-> Said(Rep("a", IntroMinLen + 1)),
       executive_summary |-> Raised,
       conclusion |-> Said(Rep("a", ConclusionMinLen + 1)),
       detailed_insights |-> Raised] }

RunsOf(self) ==
    IF self.use_gemini /\ KeyTruthy(self.gemini_api_key)
    THEN CollaboratorRuns ELSE {NoCalls}

NoFile == [exists |-> FALSE, content |-> << >>]
NoResult == [status |-> "none", error |-> "", story |-> << >>]

\* the calls: the three methods on a generator of the caller, the
\* convenience function with and without an output path, and the command
\* line with an input that can or cannot be loaded
Invocations ==
    {[entry |-> e, output_path |-> FALSE, input |-> "object"] :
        e \in {"generate_pdf", "generate", "generate_report_from_json"}}
    \cup {[entry |-> e, output_path |-> TRUE, input |-> "object"] :
        e \in {"save_report", "generate_report_from_json"}}
    \cup {[entry |-> "main", output_path |-> TRUE, input |-> i] :
        i \in {"loadable", "unloadable"}}

PdfIdle ==
    /\ invocation = [entry |-> "none", output_path |-> FALSE, input |-> "object"]
    /\ generator = DefaultGenerator
    /\ payload = NoPayload
    /\ datasets = {}
    /\ responses = NoCalls
    /\ result = NoResult
    /\ outfile = NoFile
    /\ renders = 0
    /\ lookups = << >>
    /\ gstatus = "idle"

PdfStart ==
    /\ invocation \in Invocations
    /\ generator \in IF invocation.entry \in {"generate_pdf", "generate", "save_report"}
                     THEN PdfGenerators ELSE {DefaultGenerator}
    /\ \E c \in Cases : payload = c.payload /\ datasets = c.datasets
    /\ responses = NoCalls
    /\ result = NoResult
    /\ outfile = NoFile
    /\ renders = 0
    /\ lookups = << >>
    /\ gstatus = "ready"

\* generator.generate_pdf(data)
GeneratePdf ==
    /\ gstatus = "ready" /\ invocation.entry = "generate_pdf"
    /\ \E outcomes \in RunsOf(generator) :
          /\ responses' = outcomes
          /\ result' = generate_pdf(generator, payload, datasets, outcomes)
    /\ renders' = 1
    /\ lookups' = Lookups(result', payload)
    /\ gstatus' = "done"
    /\ UNCHANGED <<invocation, generator, payload, datasets, outfile>>
    /\ UNCHANGED exceptPdf

\* generator.generate(data)
Generate ==
    /\ gstatus = "ready" /\ invocation.entry = "generate"
    /\ \E outcomes \in RunsOf(generator) :
          /\ responses' = outcomes
          /\ result' = generate(generator, payload, datasets, outcomes)
    /\ renders' = 1
    /\ lookups' = Lookups(result', payload)
    /\ gstatus' = "done"
    /\ UNCHANGED <<invocation, generator, payload, datasets, outfile>>
    /\ UNCHANGED exceptPdf

\* variant that opens the output file before the report is generated
Saved_openFirst(report) ==
    /\ result' = IF report.status = "returned" THEN Returned(<< >>) ELSE report
    /\ outfile' = [exists |-> TRUE, content |-> report.story]

\* what save_report does with the report
Saved(report) ==
    /\ result' = IF report.status = "returned" THEN Returned(<< >>) ELSE report
    /\ outfile' = IF report.status = "returned"
                  THEN [exists |-> TRUE, content |-> report.story]
                  ELSE outfile

\* generator.save_report(data, output_path): the file is opened and
\* written after generate_pdf returned; nothing is returned
SaveReport ==
    /\ gstatus = "ready" /\ invocation.entry = "save_report"
    /\ \E outcomes \in RunsOf(generator) :
          /\ responses' = outcomes
          /\ Saved(generate_pdf(generator, payload, datasets, outcomes))
    /\ renders' = 1
    /\ lookups' = Lookups(result', payload)
    /\ gstatus' = "done"
    /\ UNCHANGED <<invocation, generator, payload, datasets>>
    /\ UNCHANGED exceptPdf

\* what generate_report_from_json does with the report: with an output
\* path save_report generates it a second time, from the same payload and
\* without the collaborator, and writes that
Delivered(report) ==
    /\ result' = report
    /\ outfile' = IF report.status = "returned" /\ invocation.output_path
                  THEN [exists |-> TRUE, content |-> report.story]
                  ELSE outfile
    /\ renders' = IF report.status = "returned" /\ invocation.output_path
                  THEN 2 ELSE 1
    /\ lookups' = IF report.status = "returned" /\ invocation.output_path
                  THEN Lookups(report, payload) \o Lookups(report, payload)
                  ELSE Lookups(report, payload)

\* generate_report_from_json(json_data, title, output_path): generate_pdf
\* on a default generator and, with an output path, save_report after it
GenerateReportFromJson ==
    /\ gstatus = "ready" /\ invocation.entry = "generate_report_from_json"
    /\ Delivered(generate_pdf(DefaultGenerator, payload, datasets, NoCalls))
    /\ responses' = NoCalls
    /\ gstatus' = "done"
    /\ UNCHANGED <<invocation, generator, payload, datasets>>
    /\ UNCHANGED exceptPdf

\* cli.main: load, validate, then read args.gemini_api_key, an attribute
\* the argument parser never defines
CliMain ==
    /\ gstatus = "ready" /\ invocation.entry = "main"
    /\ result' = IF invocation.input = "unloadable"
                 THEN Failed("exit", "Error loading JSON")
                 ELSE IF ~(RequiredFields \subseteq payload.has)
                 THEN Failed("exit", "Missing required fields")
                 ELSE Failed("raised", "AttributeError")
    /\ gstatus' = "done"
    /\ UNCHANGED <<invocation, generator, payload, datasets, responses,
                   outfile, renders, lookups>>
    /\ UNCHANGED exceptPdf

-----------------------------------------------------------------------------
(* Properties of the entry points                                          *)

\* the products list without its i-th entry
WithoutEntry(data, i) ==
    [data EXCEPT !.products = SubSeq(@, 1, i - 1) \o SubSeq(@, i + 1, Len(@))]

\* a named product whose table is not found, not readable or without rows
Unresolvable(entry, files) ==
    /\ entry.product # << >>
    /\ _generate_product_visualization(entry.product, files) = << >>

\* C1: when the dataset of a requested product cannot be located or loads
\* empty, generate_pdf emits nothing for that product and raises no error:
\* what it yields is what it yields for the same payload without that
\* product entry.
C1_UnresolvableOmitted ==
    (gstatus = "done" /\ invocation.entry = "generate_pdf") =>
        \A i \in 1..Len(payload.products) :
            Unresolvable(payload.products[i], datasets) =>
                result = generate_pdf(generator, WithoutEntry(payload, i),
                                      datasets, responses)

\* C2: at every entry point, a payload lacking answer, rationale or
\* key_metrics is reported to the caller as a validation failure before any
\* rendering: generate_pdf has not run, no document is produced and no file
\* is written.
C2_ValidationBeforeRendering ==
    (/\ gstatus = "done"
     /\ invocation.input # "unloadable"
     /\ ~(RequiredFields \subseteq payload.has)) =>
        /\ result.status # "returned"
        /\ result.error = "Missing required fields"
        /\ result.story = << >>
        /\ outfile = NoFile
        /\ renders = 0

\* the top-level headings in their fixed order; the raw Key Metrics list
\* stands where Metrics Analysis does
SectionOrder ==
    << {"self.title"}, {"self.subtitle"}, {"Introduction"},
       {"Executive Summary"}, {"Key Takeaways"},
       {"Metrics Analysis", "Key Metrics"}, {"Detailed Insights"},
       {"Recommendations"}, {"Supporting Data Analysis"}, {"Conclusion"},
       {"Methodology"}, {"Report generated by CRM Analytics System"} >>
RequiredSections == {1, 3, 4, 10, 11, 12}

\* the story with the elements kept together laid out in line
RECURSIVE Flatten(_)
Flatten(story) ==
    IF story = << >> THEN << >>
    ELSE (IF story[1].el = "KeepTogether" THEN story[1].items ELSE <<story[1]>>)
         \o Flatten(Tail(story))

\* a title, subtitle, section heading or footer written by generate_pdf
\* itself; the heading of a product's subsection is made by section_title
IsHeading(e) ==
    /\ e.el = "Paragraph"
    /\ e.style \in {"title_style", "subtitle_style", "heading_style",
                    "footer_style"}
    /\ e.text.args = << >>
    /\ Len(e.text.parts) = 1
    /\ \E k \in 1..Len(SectionOrder) : e.text.parts[1] \in SectionOrder[k]

\* the places in SectionOrder of the headings of a story, as they appear
HeadingRanks(story) ==
    LET Ranked(headings) ==
            [i \in 1..Len(headings) |->
                CHOOSE k \in 1..Len(SectionOrder) :
                    headings[i].text.parts[1] \in SectionOrder[k]]
    IN  Ranked(SelectSeq(Flatten(story), IsHeading))

WellOrdered(ranks) ==
    /\ \A i, j \in 1..Len(ranks) : i < j => ranks[i] < ranks[j]
    /\ RequiredSections \subseteq Range(ranks)

\* C3: in every document generate_pdf assembles, returned or written to the
\* output path, the top-level headings present appear in the order title,
\* subtitle, Introduction, Executive Summary, Key Takeaways, Metrics
\* Analysis or Key Metrics, Detailed Insights, Recommendations, Supporting
\* Data Analysis, Conclusion, Methodology, footer, each at most once, and
\* the title, Introduction, Executive Summary, Conclusion, Methodology and
\* the footer are always present.
C3_SectionOrder ==
    /\ (/\ result.status = "returned"
        /\ invocation.entry \in {"generate_pdf", "generate",
                                 "generate_report_from_json"})
          => WellOrdered(HeadingRanks(result.story))
    /\ outfile.exists => WellOrdered(HeadingRanks(outfile.content))

\* a returned document holding every section, the optional ones included
C3_Witness ==
    /\ gstatus = "done" /\ invocation.entry = "generate_pdf"
    /\ result.status = "returned"
    /\ HeadingRanks(result.story) = <<1, 2, 3, 4, 5, 6, 7, 8, 9, 10, 11, 12>>

-----------------------------------------------------------------------------
(* Visualization of one table                                              *)

P_top10 == <<"t","o","p","1","0","_","v","o","l","u","m","e","_","3","0","d">>

\* the KeyError of a strategy that reads a column the table lacks: the
\* backlog strategy sorts by avg_age_days and reads 'Service Level 1' of
\* each row; the top-10 strategy reads rank, category, primary_metric and
\* secondary_metric of each row whose ranking_type is 'Volume (Last 30
\* Days)' (volume_rows: the table has such a row).  The other strategies
\* choose their columns among df.columns.
StrategyError(strategy, df, volume_rows) ==
    IF strategy = "_generate_backlog_table"
    THEN IF HasColumn(df, N_avg_age_days) /\ HasColumn(df, N_Service_Level_1)
         THEN "None" ELSE "KeyError"
    ELSE IF strategy = "_generate_top10_volume_chart"
    THEN IF volume_rows => \A name \in {N_rank, N_category, N_primary_metric,
                                         N_secondary_metric} : HasColumn(df, name)
         THEN "None" ELSE "KeyError"
    ELSE "None"

\* story = self._generate_product_visualization(product_name, why, doc_width)
\* with the table as the product's dataset
Visualize ==
    /\ cstatus = "ready"
    /\ \E volume_rows \in BOOLEAN :
          LET Left(error) ==
                  /\ verror' = error
                  /\ viz' = IF error = "None"
                            THEN _generate_product_visualization(P_top10,
                                     {[file |-> ProductFile(P_top10),
                                       readable |-> TRUE, df |-> dframe]})
                            ELSE << >>
                  /\ cstatus' = IF error = "None" THEN "visualized" ELSE "raised"
          IN  Left(IF DfEmpty(dframe) THEN "None"
                   ELSE StrategyError(Strategy(dframe), dframe, volume_rows))
    /\ chart_type' = IF DfEmpty(dframe) THEN "None"
                     ELSE _detect_chart_type(dframe)
    /\ UNCHANGED dframe
    /\ UNCHANGED exceptClassify

\* the table has a rank or ranking column
Ranked(t) == HasColumn(t, N_rank) \/ HasColumn(t, N_ranking_type)

\* C11: every non-empty table with a rank or ranking column classifies as
\* bar and is drawn by the ranked-table strategy, never by the vertical-bar
\* or horizontal-bar chart strategies.
C11_RankedAsTable ==
    (cstatus = "visualized" /\ ~DfEmpty(dframe) /\ Ranked(dframe)) =>
        /\ chart_type = "bar"
        /\ Len(viz) = 1
        /\ viz[1].strategy = "_generate_top10_volume_chart"

\* C27: every failure inside one product subsection is absorbed locally:
\* for every loaded non-empty table _generate_product_visualization returns
\* without raising, because the strategy selected only reads columns the
\* table has, also for a table with unresolved_count but without 'Service
\* Level 1' or avg_age_days and for a table with ranking_type but without
\* rank, category, primary_metric or secondary_metric.
C27_VisualizationNeverRaises ==
    (cstatus \in {"visualized", "raised"} /\ ~DfEmpty(dframe)) =>
        /\ cstatus = "visualized"
        /\ verror = "None"

-----------------------------------------------------------------------------
(* DualBarChartFlowable.draw                                               *)
(* Numbers are exact fractions n/d in lowest terms with d > 0; None is    *)
(* QNone.  Python's float rounding is not represented.                     *)

RECURSIVE GCD(_, _)
GCD(a, b) == IF b = 0 THEN a ELSE GCD(b, a % b)

\* the fraction n/d (d # 0) in lowest terms
Q(n, d) ==
    LET Lowest(g) == [some |-> TRUE,
                      n |-> IF d < 0 THEN 0 - (n \div g) ELSE n \div g,
                      d |-> Abs(d) \div g]
    IN  Lowest(GCD(Abs(n), Abs(d)))

QNone == [some |-> FALSE, n |-> 0, d |-> 1]
QInt(n) == Q(n, 1)

QAdd(a, b) == Q(a.n * b.d + b.n * a.d, a.d * b.d)
QMul(a, b) == Q(a.n * b.n, a.d * b.d)
QDiv(a, b) == Q(a.n * b.d, a.d * b.n)
QAbs(a) == [a EXCEPT !.n = Abs(a.n)]
QLt(a, b) == a.n * b.d < b.n * a.d
QMax(a, b) == IF QLt(a, b) THEN b ELSE a
QMin(a, b) == IF QLt(b, a) THEN b ELSE a

\* the flowable as constructed: DualBarChartFlowable(label, original_value,
\* percent_increase, max_original_value, width=..., height=50)
DualBar(label, original_value, percent_increase, max_original_value, width) ==
    [label |-> label, original_value |-> original_value,
     percent_increase |-> percent_increase,
     max_original_value |-> max_original_value, width |-> width, height |-> 50]

\* new_value = original_value * (1 + percent_increase / 100), or None
NewValue(self) ==
    IF self.original_value.some /\ self.percent_increase.some
    THEN QMul(self.original_value,
              QAdd(QInt(1), QDiv(self.percent_increase, QInt(100))))
    ELSE QNone

\* where the value text of a bar starts
TextX(bar_start_x, bar_max_width, bar_width) ==
    IF QLt(QInt(bar_max_width - 50), bar_width)
    THEN QAdd(QInt(bar_start_x + 8), bar_width)
    ELSE QInt(bar_start_x + bar_max_width + 8)

\* draw with the second bar scaled on the increase amount
\* original_value * percent_increase / 100 instead of new_value
draw_increaseAmount(self) ==
    LET bar_start_x   == 110
        bar_max_width == self.width - 180
        Bars(new_value, max_value_for_scaling) ==
            [original_bar_width |->
                 IF QLt(QInt(0), max_value_for_scaling) /\ self.original_value.some
                 THEN QMin(QMul(QDiv(QAbs(self.original_value), max_value_for_scaling),
                                QInt(bar_max_width)),
                           QInt(bar_max_width))
                 ELSE QInt(0),
             increase_bar_width |->
                 IF new_value.some /\ QLt(QInt(0), max_value_for_scaling)
                 THEN QMin(QMul(QDiv(QAbs(QAdd(new_value, QMul(QInt(-1), self.original_value))),
                                     max_value_for_scaling),
                                QInt(bar_max_width)),
                           QInt(bar_max_width))
                 ELSE QInt(0),
             new_value |-> new_value,
             max_value_for_scaling |-> max_value_for_scaling]
        Canvas(b) ==
            [label_text |-> Take(self.label, 35),
             bar_start_x |-> bar_start_x,
             bar_max_width |-> bar_max_width,
             new_value |-> b.new_value,
             max_value_for_scaling |-> b.max_value_for_scaling,
             original_bar_width |-> b.original_bar_width,
             increase_bar_width |-> b.increase_bar_width,
             original_text_x |->
                 IF self.original_value.some
                 THEN TextX(bar_start_x, bar_max_width, b.original_bar_width)
                 ELSE QNone,
             increase_color |->
                 IF ~QLt(QInt(0), b.increase_bar_width) THEN "None"
                 ELSE IF self.percent_increase.some /\ self.percent_increase.n > 0
                 THEN "#10b981"
                 ELSE IF self.percent_increase.some /\ self.percent_increase.n < 0
                 THEN "#ef4444"
                 ELSE "#6b7280",
             increase_text_x |->
                 IF self.percent_increase.some /\ b.new_value.some
                 THEN TextX(bar_start_x, bar_max_width, b.increase_bar_width)
                 ELSE QNone]
        Scaled_to(new_value) ==
            Canvas(Bars(new_value,
                        IF new_value.some /\ self.original_value.some
                        THEN QMax(self.max_original_value, QAbs(new_value))
                        ELSE self.max_original_value))
    IN  Scaled_to(NewValue(self))

\* what draw puts on the canvas: the label, the two tracks, the two bars,
\* the colour of the second bar and where the two value texts start
draw(self) ==
    LET bar_start_x   == 110
        bar_max_width == self.width - 180
        Bars(new_value, max_value_for_scaling) ==
            [original_bar_width |->
                 IF QLt(QInt(0), max_value_for_scaling) /\ self.original_value.some
                 THEN QMin(QMul(QDiv(QAbs(self.original_value), max_value_for_scaling),
                                QInt(bar_max_width)),
                           QInt(bar_max_width))
                 ELSE QInt(0),
             increase_bar_width |->
                 IF new_value.some /\ QLt(QInt(0), max_value_for_scaling)
                 THEN QMin(QMul(QDiv(QAbs(new_value), max_value_for_scaling),
                                QInt(bar_max_width)),
                           QInt(bar_max_width))
                 ELSE QInt(0),
             new_value |-> new_value,
             max_value_for_scaling |-> max_value_for_scaling]
        Canvas(b) ==
            [label_text |-> Take(self.label, 35),
             bar_start_x |-> bar_start_x,
             bar_max_width |-> bar_max_width,
             new_value |-> b.new_value,
             max_value_for_scaling |-> b.max_value_for_scaling,
             original_bar_width |-> b.original_bar_width,
             increase_bar_width |-> b.increase_bar_width,
             original_text_x |->
                 IF self.original_value.some
                 THEN TextX(bar_start_x, bar_max_width, b.original_bar_width)
                 ELSE QNone,
             increase_color |->
                 IF ~QLt(QInt(0), b.increase_bar_width) THEN "None"
                 ELSE IF self.percent_increase.some /\ self.percent_increase.n > 0
                 THEN "#10b981"
                 ELSE IF self.percent_increase.some /\ self.percent_increase.n < 0
                 THEN "#ef4444"
                 ELSE "#6b7280",
             increase_text_x |->
                 IF self.percent_increase.some /\ b.new_value.some
                 THEN TextX(bar_start_x, bar_max_width, b.increase_bar_width)
                 ELSE QNone]
        Scaled_to(new_value) ==
            Canvas(Bars(new_value,
                        IF new_value.some /\ self.original_value.some
                        THEN QMax(self.max_original_value, QAbs(new_value))
                        ELSE self.max_original_value))
    IN  Scaled_to(NewValue(self))

\* the flowables drawn: original values, growth percentages (73.1 among
\* them), maxima on either side of the original value, the default width
\* and int(doc.width) of a letter page with 72-point margins
BarLabels == {<<"R","o","a","d","s">>, [i \in 1..36 |-> "x"]}
OriginalValues == {QNone, QInt(-50), QInt(0), QInt(1), QInt(100), QInt(120), QInt(280)}
PercentIncreases ==
    {QNone, QInt(-150), QInt(-100), QInt(-20), QInt(0), QInt(50), Q(731, 10),
     QInt(100), QInt(250)}
MaxOriginals == {QInt(-50), QInt(0), QInt(100), QInt(150), QInt(280), QInt(1000)}
BarWidths == {400, 468}

NoBar == DualBar(<< >>, QNone, QNone, QInt(0), 0)
NoCanvas == [drawn |-> FALSE]

DrawIdle == bar = NoBar /\ canvas = NoCanvas /\ dstatus = "idle"

DrawStart ==
    /\ bar \in {DualBar(l, o, p, m, w) : l \in BarLabels, o \in OriginalValues,
                    p \in PercentIncreases, m \in MaxOriginals, w \in BarWidths}
    /\ canvas = NoCanvas
    /\ dstatus = "ready"

\* the renderer calls flowable.draw()
Draw ==
    /\ dstatus = "ready"
    /\ canvas' = draw(bar)
    /\ dstatus' = "drawn"
    /\ UNCHANGED bar
    /\ UNCHANGED exceptDraw

\* 1 + percent_increase / 100
Factor(self) == QAdd(QInt(1), QDiv(self.percent_increase, QInt(100)))

\* original_value > 0, percent_increase >= 0, max_original_value >= original_value
C12_Case(self) ==
    /\ self.original_value.some /\ self.original_value.n > 0
    /\ self.percent_increase.some /\ self.percent_increase.n >= 0
    /\ ~QLt(self.max_original_value, self.original_value)

-----------------------------------------------------------------------------
(* generate_pdf: the Metrics Analysis block on its own                     *)

\* key metrics: growth, increase and recent volume for the same and for
\* different categories, growth of 0 and of -100, texts without category
BundleTexts ==
    { <<"7","3",".","1","%"," ","g","r","o","w","t","h"," ","i","n"," ","T","r","e","e","s">>,
      <<"2","8","0"," ","r","e","q","u","e","s","t","s"," ","i","n","c","r","e","a","s","e"," ","i","n"," ","T","r","e","e","s">>,
      <<"1","2","0"," ","r","e","c","e","n","t"," ","r","e","q","u","e","s","t","s"," ","i","n"," ","T","r","e","e","s">>,
      <<"-","1","0","0","%"," ","g","r","o","w","t","h"," ","i","n"," ","P","a","r","k","s">>,
      <<"0","%"," ","g","r","o","w","t","h"," ","i","n"," ","P","a","r","k","s">>,
      <<"5","0"," ","r","e","c","e","n","t"," ","r","e","q","u","e","s","t","s"," ","i","n"," ","P","a","r","k","s">>,
      <<"0"," ","r","e","q","u","e","s","t","s"," ","i","n","c","r","e","a","s","e"," ","i","n"," ","R","o","a","d","s">>,
      <<"6","6","3"," ","r","e","q","u","e","s","t","s"," ","i","n"," ","R","o","a","d","s">>,
      <<"n","o"," ","d","a","t","a">> }

ParsedBundleTexts == {ParseMetric(t) : t \in BundleTexts}

\* twelve key metrics: "<k> requests increase in C<x><x><x>" for k = 1..11,
\* each a bundle of its own with growth and increase, and one growth-only text
ManyNumbers ==
    << <<"1">>, <<"2">>, <<"3">>, <<"4">>, <<"5">>, <<"6">>, <<"7">>, <<"8">>,
       <<"9">>, <<"1","0">>, <<"1","1">> >>
ManyLetters == <<"a","b","c","d","e","f","g","h","i","j","k">>
ManyTexts ==
    [k \in 1..11 |->
        ManyNumbers[k]
        \o <<" ","r","e","q","u","e","s","t","s"," ","i","n","c","r","e","a","s","e"," ","i","n"," ","C">>
        \o Rep(ManyLetters[k], 3)]
    \o << <<"5","%"," ","g","r","o","w","t","h"," ","i","n"," ","Z","o","n","e","s">> >>
ManyParsed == [k \in 1..Len(ManyTexts) |-> ParseMetric(ManyTexts[k])]

MetricsIdle ==
    minput = << >> /\ mbundles = << >> /\ mcharts = << >> /\ mstatus = "idle"

MetricsStart ==
    /\ minput \in SeqsUpTo(ParsedBundleTexts, MaxMetrics) \cup {ManyParsed}
    /\ mbundles = << >>
    /\ mcharts = << >>
    /\ mstatus = "ready"

\* category_metrics after the derivation loop, which stops at the first
\* bundle whose derivation raises
DerivedBundles(bundles) ==
    LET bad == {i \in 1..Len(bundles) : DividesByZero(bundles[i])}
    IN  [i \in 1..Len(bundles) |->
            IF bad = {} \/ i < MinPos(bad) THEN DeriveOriginal(bundles[i])
            ELSE bundles[i]]

\* metric_charts of the section
MetricCharts(sec) ==
    IF sec.raises \/ Len(sec.items) < 2 THEN << >> ELSE sec.items[2].items

\* the block "if parsed_metrics:" of generate_pdf, from the parsed key metrics
\* to metric_charts
AnalyzeMetrics ==
    /\ mstatus = "ready"
    /\ mbundles' = DerivedBundles(category_metrics(minput))
    /\ mcharts' = IF minput = << >> THEN << >>
                  ELSE MetricCharts(MetricsAnalysis(minput))
    /\ mstatus' = IF \E i \in 1..Len(mbundles') : DividesByZero(mbundles'[i])
                  THEN "raised" ELSE "done"
    /\ UNCHANGED minput
    /\ UNCHANGED exceptMetrics

\* the value 0
IsZero(v) == IsSome(v) /\ ~Truthy(v)

\* original_value as the three formulas in priority order give it
ByPriority(b) ==
    CASE IsSome(b.recent_volume) /\ IsSome(b.increase) ->
             Derived("recent_volume - increase", b.recent_volume, b.increase)
      [] /\ IsSome(b.recent_volume) /\ ~IsSome(b.increase)
         /\ IsSome(b.growth) /\ ~IsZero(b.growth) ->
             Derived("recent_volume / (1 + growth / 100)", b.recent_volume, b.growth)
      [] /\ IsSome(b.recent_volume) /\ ~IsSome(b.increase) /\ IsZero(b.growth) ->
             Derived("recent_volume", b.recent_volume, NoneVal)
      [] /\ ~IsSome(b.recent_volume) /\ IsSome(b.increase)
         /\ IsSome(b.growth) /\ ~IsZero(b.growth) ->
             Derived("increase / (growth / 100)", b.increase, b.growth)
      [] /\ ~IsSome(b.recent_volume) /\ IsSome(b.increase) /\ IsZero(b.growth) ->
             Derived("0", NoneVal, NoneVal)
      [] OTHER -> NoDerived

\* C13: for every category bundle, original_value is set by exactly one of
\* three formulas in priority order: recent_volume - increase; else
\* recent_volume / (1 + growth/100), or recent_volume when growth is 0; else
\* increase / (growth/100), or 0 when growth is 0; and it stays absent when
\* none of the three conditions holds.
C13_OriginalValuePriority ==
    mstatus \in {"done", "raised"} =>
        \A i \in 1..Len(mbundles) :
            mbundles[i].original_value = ByPriority(mbundles[i])


\* the dual bars among metric_charts, in the order placed
DualBars(charts) ==
    LET isDual(c) == c.el = "DualBarChartFlowable"
    IN  SelectSeq(charts, isDual)

\* C14: every dual bar placed has an original_value and a percent_increase
\* that are not absent, no bundle lacking original_value or growth has a
\* dual bar, at most 10 dual bars are placed, in order of non-increasing
\* |growth|, and simple bars appear only when no dual bar was placed.
C14_DualBarsComplete ==
    mstatus = "done" =>
        LET Holds(duals) ==
                /\ \A k \in 1..Len(duals) :
                       /\ duals[k].original_value.by # "none"
                       /\ IsSome(duals[k].percent_increase)
                /\ \A i \in 1..Len(mbundles) :
                       (mbundles[i].original_value.by = "none"
                            \/ ~IsSome(mbundles[i].growth)) =>
                           \A k \in 1..Len(duals) :
                               duals[k].label # mbundles[i].category
                /\ Len(duals) <= 10
                /\ \A j, k \in 1..Len(duals) :
                       j < k => ScaledAbs(duals[j].percent_increase)
                                    >= ScaledAbs(duals[k].percent_increase)
                /\ (\E k \in 1..Len(mcharts) : mcharts[k].el = "BarChartFlowable")
                       => duals = << >>
        IN  Holds(DualBars(mcharts))

\* eleven bundles have original_value and growth and one has growth only:
\* ten dual bars were placed, the bundle of smallest |growth| and the
\* growth-only bundle have none
C14_Witness ==
    /\ mstatus = "done"
    /\ Len(mbundles) = 12
    /\ Cardinality({i \in 1..Len(mbundles) :
                       /\ mbundles[i].original_value.by # "none"
                       /\ IsSome(mbundles[i].growth)}) = 11
    /\ Len(DualBars(mcharts)) = 10
    /\ \E i \in 1..Len(mbundles) : mbundles[i].original_value.by = "none"

\* C28: for every category bundle built in the Metrics Analysis section the
\* growth field, which the dual bar receives as percent_increase, is the
\* value of a metric of that category whose unit is '%': an absolute-count
\* metric such as "172 requests increase in Trees" never supplies or
\* overwrites growth, whatever the order of the entries in key_metrics.
C28_GrowthIsPercentage ==
    mstatus = "done" =>
        \A i \in 1..Len(mbundles) :
            IsSome(mbundles[i].growth) =>
                \E k \in 1..Len(minput) :
                    /\ minput[k].category.s = mbundles[i].category
                    /\ minput[k].unit = "%"
                    /\ minput[k].value = mbundles[i].growth

-----------------------------------------------------------------------------
(* MetricParser.group_by_type and group_by_category                        *)
(* A dict is the sequence of its entries [key, items] in insertion order.  *)

W_Other == <<"O","t","h","e","r">>

\* metric.metric_type or 'unknown'
TypeKey(metric) ==
    IF metric.metric_type \in {"None", ""} THEN "unknown" ELSE metric.metric_type

\* metric.category or 'Other'
CategoryKey(metric) ==
    IF HasCategory(metric) THEN metric.category.s ELSE W_Other

\* if key not in grouped: grouped[key] = []; grouped[key].append(metric)
AddToGroup(groups, key, metric) ==
    IF \E i \in 1..Len(groups) : groups[i].key = key
    THEN [i \in 1..Len(groups) |->
             IF groups[i].key = key
             THEN [groups[i] EXCEPT !.items = Append(@, metric)]
             ELSE groups[i]]
    ELSE Append(groups, [key |-> key, items |-> <<metric>>])

\* grouped[key] = [metric] whether or not the key is there
SetGroup(groups, key, metric) ==
    IF \E i \in 1..Len(groups) : groups[i].key = key
    THEN [i \in 1..Len(groups) |->
             IF groups[i].key = key
             THEN [groups[i] EXCEPT !.items = <<metric>>]
             ELSE groups[i]]
    ELSE Append(groups, [key |-> key, items |-> <<metric>>])

RECURSIVE GroupTypesOverwriting(_, _)
GroupTypesOverwriting(groups, metrics) ==
    IF metrics = << >> THEN groups
    ELSE GroupTypesOverwriting(SetGroup(groups, TypeKey(metrics[1]), metrics[1]),
                               Tail(metrics))

RECURSIVE GroupTypes(_, _)
GroupTypes(groups, metrics) ==
    IF metrics = << >> THEN groups
    ELSE GroupTypes(AddToGroup(groups, TypeKey(metrics[1]), metrics[1]),
                    Tail(metrics))

RECURSIVE GroupCategories(_, _)
GroupCategories(groups, metrics) ==
    IF metrics = << >> THEN groups
    ELSE GroupCategories(AddToGroup(groups, CategoryKey(metrics[1]), metrics[1]),
                         Tail(metrics))

\* group_by_type assigning the list [metric] in place of appending
group_by_type_overwrite(parsed_metrics) == GroupTypesOverwriting(<< >>, parsed_metrics)

group_by_type(parsed_metrics) == GroupTypes(<< >>, parsed_metrics)

group_by_category(parsed_metrics) == GroupCategories(<< >>, parsed_metrics)

\* metrics to group: parsed ones of several types, with and without
\* category, and ParsedMetric objects whose metric_type is None, whose
\* category is '' and whose category is 'Other'
W_no_data == <<"n","o"," ","d","a","t","a">>
GroupSamples ==
    ParsedSamples
    \cup { ParseMetric(W_no_data),
           [ParseMetric(W_no_data) EXCEPT !.metric_type = "None"],
           [ParseMetric(W_no_data) EXCEPT !.category = [some |-> TRUE, s |-> << >>]],
           [ParseMetric(W_no_data) EXCEPT !.category = [some |-> TRUE, s |-> W_Other],
                                          !.metric_type = "unknown"] }

GroupIdle == glist = << >> /\ grouped = << >> /\ gcall = "idle"

GroupStart ==
    /\ glist \in SeqsUpTo(GroupSamples, MaxMetrics)
    /\ grouped = << >>
    /\ gcall = "ready"

\* grouped = MetricParser.group_by_type(parsed_metrics)
GroupByType ==
    /\ gcall = "ready"
    /\ grouped' = group_by_type(glist)
    /\ gcall' = "group_by_type"
    /\ UNCHANGED glist
    /\ UNCHANGED exceptGroup

\* grouped = MetricParser.group_by_category(parsed_metrics)
GroupByCategory ==
    /\ gcall = "ready"
    /\ grouped' = group_by_category(glist)
    /\ gcall' = "group_by_category"
    /\ UNCHANGED glist
    /\ UNCHANGED exceptGroup

\* the positions of the input list whose key is k
PositionsOf(k) ==
    {i \in 1..Len(glist) :
        IF gcall = "group_by_type"
        THEN glist[i].metric_type = k
                 \/ (k = "unknown" /\ glist[i].metric_type \in {"None", ""})
        ELSE (glist[i].category.some /\ glist[i].category.s = k)
                 \/ (k = W_Other /\ (~glist[i].category.some
                                        \/ glist[i].category.s = << >>))}

\* the elements at the positions P of the input list, in input order
RECURSIVE InOrder(_, _)
InOrder(P, from) ==
    IF from > Len(glist) THEN << >>
    ELSE (IF from \in P THEN <<glist[from]>> ELSE << >>) \o InOrder(P, from + 1)

\* C15: group_by_type and group_by_category partition their input list:
\* every input element is in exactly one group (under 'unknown' / 'Other'
\* when its key is absent), no group is empty, the groups hold exactly the
\* input elements with the same multiplicity, and each group keeps the
\* input order.
C15_GroupsPartition ==
    gcall \in {"group_by_type", "group_by_category"} =>
        /\ \A i, j \in 1..Len(grouped) : i # j => grouped[i].key # grouped[j].key
        /\ \A i \in 1..Len(grouped) :
               /\ grouped[i].items # << >>
               /\ grouped[i].items = InOrder(PositionsOf(grouped[i].key), 1)
        /\ \A p \in 1..Len(glist) :
               Cardinality({i \in 1..Len(grouped) :
                               p \in PositionsOf(grouped[i].key)}) = 1

\* three metrics were grouped by type into a group of two that are not
\* adjacent in the input and a group of one filed under 'unknown' for lack
\* of a type
C15_Witness ==
    /\ gcall = "group_by_type"
    /\ Len(glist) = 3 /\ Len(grouped) = 2
    /\ glist[1].metric_type = glist[3].metric_type /\ glist[1] # glist[3]
    /\ glist[2].metric_type = "None"
    /\ grouped[2].key = "unknown"
    /\ Len(grouped[1].items) = 2

-----------------------------------------------------------------------------
(* Properties of the label                                                 *)

\* the characters a label has whatever the value formats to
FixedPart(label) ==
    CASE label.form = "growth_fmt" -> <<"%"," ","G","r","o","w","t","h">>
      [] label.form = "volume_fmt" -> <<" ">>
      [] label.form = "percentage_fmt" -> <<"%">>
      [] label.form = "Growth Rate" -> <<"G","r","o","w","t","h"," ","R","a","t","e">>
      [] label.form = "Volume" -> <<"V","o","l","u","m","e">>
      [] label.form = "Percentage" -> <<"P","e","r","c","e","n","t","a","g","e">>
      [] label.form = "Metric" -> <<"M","e","t","r","i","c">>
      [] label.form = "cleaned" -> label.s
      [] OTHER -> << >>

FillerWords ==
    {W_in, W_with, W_shows, W_has, W_is, W_requests, W_request, W_growth,
     W_increase, W_decrease}

\* digits with an optional fraction and an optional percent sign, or a
\* percent sign, or one of the filler words in any letter case
FillerToken(w) ==
    \/ LowerText(w) \in FillerWords
    \/ w = <<"%">>
    \/ /\ w[1] \in Digit
       /\ LET b == RunEnd(w, 1, Digit)
              c == IF b <= Len(w) /\ w[b] = "." THEN RunEnd(w, b + 1, Digit) ELSE b
          IN  c = Len(w) + 1 \/ (c = Len(w) /\ w[c] = "%")

\* the text is empty or made of blank-separated filler tokens
OnlyFillers(t) ==
    \A i \in 1..Len(t) :
        (t[i] \notin Space /\ (i = 1 \/ t[i - 1] \in Space)) =>
            FillerToken(SubSeq(t, i, RunEnd(t, i, {c \in Range(t) : c \notin Space}) - 1))

LabelLiterals == {"Metric", "Growth Rate", "Volume", "Percentage"}
LabelFormats == {"growth_fmt", "volume_fmt", "percentage_fmt"}

FormatOf(metric_type) ==
    CASE metric_type = "growth" -> "growth_fmt"
      [] metric_type = "volume" -> "volume_fmt"
      [] metric_type = "percentage" -> "percentage_fmt"
LiteralOf(metric_type) ==
    CASE metric_type = "growth" -> "Growth Rate"
      [] metric_type = "volume" -> "Volume"
      [] metric_type = "percentage" -> "Percentage"

\* C17: for metric_type growth, volume and percentage the literal fallback
\* label is produced only when value is absent; whenever a value was
\* extracted, the value 0 included, the label is the formatted value.
C17_LiteralOnlyWhenAbsent ==
    (pstatus = "returned" /\ parsed.metric_type \in {"growth", "volume", "percentage"}) =>
        /\ parsed.value.kind = "none" => parsed.label.form = LiteralOf(parsed.metric_type)
        /\ parsed.value.kind # "none" =>
               /\ parsed.label.form = FormatOf(parsed.metric_type)
               /\ parsed.label.v = parsed.value


\* one of the keywords of the type occurs in the lower-cased text
Mentions(t, type) ==
    \E k \in 1..Len(TYPE_KEYWORDS) :
        /\ TYPE_KEYWORDS[k].type = type
        /\ \E w \in TYPE_KEYWORDS[k].keywords : Contains(LowerText(t), w)

\* the first of growth, volume, percentage, time that the text mentions
FirstMentioned(t) ==
    CASE Mentions(t, "growth") -> "growth"
      [] ~Mentions(t, "growth") /\ Mentions(t, "volume") -> "volume"
      [] /\ ~Mentions(t, "growth") /\ ~Mentions(t, "volume")
         /\ Mentions(t, "percentage") -> "percentage"
      [] /\ ~Mentions(t, "growth") /\ ~Mentions(t, "volume")
         /\ ~Mentions(t, "percentage") /\ Mentions(t, "time") -> "time"
      [] OTHER -> "unknown"

C19_ThreeToFourInsights ==
    (nstatus = "done" /\ section = "detailed_insights") =>
        Len(narrative) \in 3..4


\* no digit occurs in the strings substituted into the text
NoDigits(txt) ==
    \A k \in 1..Len(txt.args) :
        \A i \in 1..Len(txt.args[k]) : txt.args[k][i] \notin Digit

\* C20: the deterministic fallback text of the executive summary, the
\* introduction and the conclusion never contains a numeric value taken from
\* the answer, rationale or key metrics: besides fixed template wording it
\* holds only category names and qualitative descriptors, for every payload,
\* also when the basic answer-based fallback branch is taken.
C20_FallbackWithoutNumbers ==
    (/\ nstatus = "done"
     /\ section \in {"introduction", "executive_summary", "conclusion"}
     /\ ~Accepted) =>
        \A k \in 1..Len(narrative) : NoDigits(narrative[k])

-----------------------------------------------------------------------------
(* Properties of the Supporting Data Analysis section                      *)

\* the documents the call produced: returned to the caller, written to the
\* output path
Documents ==
    (IF result.status = "returned"
        /\ invocation.entry \in {"generate_pdf", "generate",
                                 "generate_report_from_json"}
     THEN {result.story} ELSE {})
    \cup (IF outfile.exists THEN {outfile.content} ELSE {})

IsSupportingHeading(e) ==
    /\ e.el = "Paragraph"
    /\ e.style = "heading_style"
    /\ e.text = Txt(<<"Supporting Data Analysis">>, << >>)

\* the heading of a product's subsection
IsSubsection(e) ==
    /\ e.el = "Paragraph"
    /\ e.style = "heading_style"
    /\ e.text.parts = <<"section_title">>

HasNamedProduct(data) ==
    \E i \in 1..Len(Get(data, "products", << >>)) :
        Get(data, "products", << >>)[i].product # << >>

\* C21: when products is empty or absent, generate_pdf emits no Supporting
\* Data Analysis heading and no product subsection and looks up no dataset;
\* the Supporting Data Analysis heading is emitted only when at least one
\* product entry has a non-empty product key, and then exactly once.
C21_SupportingDataHeading ==
    /\ (gstatus = "done" /\ Get(payload, "products", << >>) = << >>) =>
           lookups = << >>
    /\ \A doc \in Documents :
          /\ Get(payload, "products", << >>) = << >> =>
                /\ SelectSeq(Flatten(doc), IsSupportingHeading) = << >>
                /\ SelectSeq(Flatten(doc), IsSubsection) = << >>
          /\ Len(SelectSeq(Flatten(doc), IsSupportingHeading))
                = IF HasNamedProduct(payload) THEN 1 ELSE 0

\* a document for two named products, with one section heading and both
\* datasets looked up
C21_Witness ==
    /\ gstatus = "done" /\ invocation.entry = "generate_pdf"
    /\ result.status = "returned"
    /\ Len(lookups) = 2
    /\ Len(SelectSeq(Flatten(result.story), IsSubsection)) = 2
    /\ Len(SelectSeq(Flatten(result.story), IsSupportingHeading)) = 1

-----------------------------------------------------------------------------
(* Properties of the output file                                           *)

\* a story that was assembled to its end: from the title block to the
\* footer
Complete(doc) ==
    /\ Len(doc) >= Len(TitleBlock) + Len(FooterBlock)
    /\ SubSeq(doc, 1, Len(TitleBlock)) = TitleBlock
    /\ SubSeq(doc, Len(doc) - Len(FooterBlock) + 1, Len(doc)) = FooterBlock

\* C22: no partial document is ever emitted: the output file is opened and
\* written only after generate_pdf has returned the complete document, so
\* when a step of the generation raises, the output path is neither created
\* nor modified, and what generate_pdf returns is the document built to its
\* end.
C22_NoPartialDocument ==
    /\ [](gstatus = "done" =>
            /\ result.status # "returned" => outfile = NoFile
            /\ outfile.exists => Complete(outfile.content)
            /\ \A doc \in Documents : Complete(doc))
    /\ [][result'.status # "returned" => outfile' = outfile]_pdfVars

\* save_report on a payload whose generation raises: no file
C22_Witness ==
    /\ gstatus = "done" /\ invocation.entry = "save_report"
    /\ result.status = "raised"
    /\ outfile = NoFile

-----------------------------------------------------------------------------
(* HorizontalBarChartFlowable.draw                                         *)

QSub(a, b) == Q(a.n * b.d - b.n * a.d, a.d * b.d)
QLe(a, b) == ~QLt(b, a)

\* the flowable as constructed, with the width canvas.stringWidth reports
\* for its value text
HorizontalBar(value, max_value, width, height, value_width) ==
    [value |-> value, max_value |-> max_value, width |-> width,
     height |-> height, value_width |-> value_width]

\* canvas.rect(x, y, width, height, fill=1, stroke=0)
Rect(x, y, width, height) == [x |-> x, y |-> y, width |-> width, height |-> height]

\* what draw puts on the canvas: the filled rectangles in the order they
\* are painted and where the value text starts
HorizontalBar_draw(self) ==
    LET text_area_width  == QDiv(QInt(self.width), QInt(5))
        bar_area_x       == QAdd(text_area_width, QInt(5))
        value_area_width == QAdd(self.value_width, QInt(10))
        bar_area_width   == QSub(QSub(QInt(self.width), bar_area_x), value_area_width)
        bar_width        == IF QLt(QInt(0), self.max_value)
                            THEN QMul(QDiv(QAbs(self.value), self.max_value),
                                      bar_area_width)
                            ELSE QInt(0)
        bar_y            == QInt(4)
        bar_height       == QInt(self.height - 8)
        first            == IF QLt(QInt(0), bar_width)
                            THEN <<Rect(bar_area_x, bar_y, bar_width, bar_height)>>
                            ELSE << >>
        value_x          == QAdd(QAdd(bar_area_x, bar_width), QInt(5))
        max_bar_width    == QSub(QSub(QSub(QInt(self.width), bar_area_x),
                                      value_area_width), QInt(5))
        Redrawn(width) ==
            [rects |-> first \o <<Rect(bar_area_x, bar_y, width, bar_height)>>,
             value_x |-> QAdd(QAdd(bar_area_x, width), QInt(5)),
             value_width |-> self.value_width]
    IN  IF /\ QLt(QInt(self.width - 5), QAdd(value_x, self.value_width))
           /\ QLt(QInt(0), max_bar_width)
        THEN Redrawn(QMin(bar_width, max_bar_width))
        ELSE [rects |-> first, value_x |-> value_x,
              value_width |-> self.value_width]

\* the bars drawn: values below, at and above the maximum, text widths from
\* a short number to a text wider than the bar area, the default width and
\* the width of the page body
HBarValues == {QInt(-150), QInt(0), Q(1, 2), QInt(30), QInt(100), QInt(150), QInt(1000)}
HBarMaxima == {QInt(0), QInt(100), QInt(150)}
ValueWidths == {QInt(18), Q(81, 2), QInt(120), QInt(360)}
HBarHeights == {28, 30}

HBarStart ==
    /\ bar \in {HorizontalBar(v, m, w, h, vw) : v \in HBarValues,
                    m \in HBarMaxima, w \in BarWidths, h \in HBarHeights,
                    vw \in ValueWidths}
    /\ canvas = NoCanvas
    /\ dstatus = "ready"

\* the renderer calls flowable.draw()
DrawHorizontal ==
    /\ dstatus = "ready"
    /\ canvas' = HorizontalBar_draw(bar)
    /\ dstatus' = "drawn"
    /\ UNCHANGED bar
    /\ UNCHANGED exceptDraw

\* C23: for every HorizontalBar draw with max_value > 0, any value
\* (|value| > max_value included) and any text width, the value text
\* starts after the right edge of every bar rectangle that was drawn and
\* its right edge does not exceed the bounding width; when |value| <=
\* max_value the text's right edge is at most width - 5 and the bar was
\* not redrawn.
C23_ValueTextClearOfBar ==
    (dstatus = "drawn" /\ QLt(QInt(0), bar.max_value)) =>
        /\ \A i \in 1..Len(canvas.rects) :
              QLe(QAdd(canvas.rects[i].x, canvas.rects[i].width), canvas.value_x)
        /\ QLe(QAdd(canvas.value_x, canvas.value_width), QInt(bar.width))
        /\ QLe(QAbs(bar.value), bar.max_value) =>
              /\ QLe(QAdd(canvas.value_x, canvas.value_width), QInt(bar.width - 5))
              /\ Len(canvas.rects) <= 1

-----------------------------------------------------------------------------
(* ReportGenerator._generate_backlog_table                                 *)
(* The table is the sequence of its rows; a row holds its 'Service Level   *)
(* 1' (a text or NaN), its unresolved_count and its avg_age_days.          *)

BacklogRow(level1, unresolved_count, avg_age_days) ==
    [level1 |-> level1, unresolved_count |-> unresolved_count,
     avg_age_days |-> avg_age_days]

NaN == [nan |-> TRUE, text |-> ""]
Level(text_) == [nan |-> FALSE, text |-> text_]

\* df.sort_values(['unresolved_count', 'avg_age_days'],
\* ascending=[False, False]): rows that tie on both keys keep their order
sort_values(rows) ==
    LET Before(j, i) ==
            \/ rows[j].unresolved_count > rows[i].unresolved_count
            \/ /\ rows[j].unresolved_count = rows[i].unresolved_count
               /\ \/ rows[j].avg_age_days > rows[i].avg_age_days
                  \/ rows[j].avg_age_days = rows[i].avg_age_days /\ j < i
        Place(i) == 1 + Cardinality({j \in 1..Len(rows) : Before(j, i)})
    IN  [k \in 1..Len(rows) |-> rows[CHOOSE i \in 1..Len(rows) : Place(i) = k]]

\* str(row['Service Level 1']) if pd.notna(...) else "Unknown"
Level1Of(row) == IF row.level1.nan THEN "Unknown" ELSE row.level1.text

\* level1_data after the loop over the rows: the sums in insertion order
RECURSIVE Level1Data(_, _)
Level1Data(level1_data, rows) ==
    IF rows = << >> THEN level1_data
    ELSE LET level1 == Level1Of(rows[1])
             unresolved == rows[1].unresolved_count
             hits == {k \in 1..Len(level1_data) : level1_data[k].label = level1}
         IN  Level1Data(
                 IF hits # {}
                 THEN [k \in 1..Len(level1_data) |->
                          IF k \in hits
                          THEN [level1_data[k] EXCEPT !.count = @ + unresolved]
                          ELSE level1_data[k]]
                 ELSE Append(level1_data, [label |-> level1, count |-> unresolved]),
                 Tail(rows))

\* sorted(level1_data.items(), key=lambda x: x[1], reverse=True)
SortedLevel1(items) ==
    LET Before(j, i) ==
            \/ items[j].count > items[i].count
            \/ items[j].count = items[i].count /\ j < i
        Place(i) == 1 + Cardinality({j \in 1..Len(items) : Before(j, i)})
    IN  [k \in 1..Len(items) |-> items[CHOOSE i \in 1..Len(items) : Place(i) = k]]

\* max(unresolved_counts)
MaxCount(items) ==
    CHOOSE m \in {items[k].count : k \in 1..Len(items)} :
        \A k \in 1..Len(items) : items[k].count <= m

\* BorderedChartContainer(list(zip(labels, unresolved_counts)),
\* int(doc_width), total_height, padding)
BorderedChartContainer(charts_data, width, height, padding, max_value) ==
    [charts_data |-> charts_data, width |-> width, height |-> height,
     padding |-> padding, max_value |-> max_value]

\* the story of the backlog strategy: nothing for a table without rows,
\* else one container
_generate_backlog_table(df, doc_width) ==
    LET chart_height == 28
        spacer_height == 8
        padding == 4
        Container(sorted_level1) ==
            <<BorderedChartContainer(sorted_level1, doc_width,
                  (Len(sorted_level1) * chart_height)
                  + ((Len(sorted_level1) - 1) * spacer_height) + (padding * 2),
                  padding, MaxCount(sorted_level1))>>
        Charts(sorted_df) ==
            IF sorted_df = << >> THEN << >>
            ELSE Container(Take(SortedLevel1(Level1Data(<< >>, sorted_df)), 15))
    IN  Charts(Take(sort_values(df), 15))

\* variant that moves down by the chart height alone
Container_draw_noSpacer(self) ==
    LET chart_height == 28
        chart_width == self.width - (self.padding * 2) - 2
    IN  [border |-> [x |-> 0, y |-> 0, width |-> self.width, height |-> self.height],
         charts |->
             [i \in 1..Len(self.charts_data) |->
                 [x |-> self.padding,
                  y |-> (self.height - self.padding)
                        - (i - 1) * chart_height - chart_height,
                  width |-> chart_width, height |-> chart_height,
                  label |-> self.charts_data[i].label,
                  value |-> self.charts_data[i].count,
                  max_value |-> self.max_value]]]

\* BorderedChartContainer.draw: the border, then one HorizontalBar per
\* entry, each translated to its place
Container_draw(self) ==
    LET chart_height == 28
        spacer_height == 8
        chart_width == self.width - (self.padding * 2) - 2
    IN  [border |-> [x |-> 0, y |-> 0, width |-> self.width, height |-> self.height],
         charts |->
             [i \in 1..Len(self.charts_data) |->
                 [x |-> self.padding,
                  y |-> (self.height - self.padding)
                        - (i - 1) * (chart_height + spacer_height) - chart_height,
                  width |-> chart_width, height |-> chart_height,
                  label |-> self.charts_data[i].label,
                  value |-> self.charts_data[i].count,
                  max_value |-> self.max_value]]]

\* longest table drawn from BacklogRows
MaxRows == 3

\* rows of three services and of a row without a service, with ties on the
\* count and on both keys
BacklogRows ==
    { BacklogRow(Level("Roads"), 7, 30), BacklogRow(Level("Roads"), 7, 12),
      BacklogRow(Level("Trees"), 7, 30), BacklogRow(Level("Parks"), 0, 5),
      BacklogRow(NaN, 3, 1) }

\* tables of 16 and 18 rows over four and over sixteen services, counts
\* falling with the row number
LongTables ==
    { [i \in 1..16 |->
          BacklogRow(Level(<<"Roads", "Trees", "Parks", "Water">>[(i % 4) + 1]),
                     20 - i, i)],
      [i \in 1..18 |->
          BacklogRow(Level(<<"Roads", "Trees", "Parks", "Water">>[(i % 4) + 1]),
                     i, 40 - i)],
      [i \in 1..16 |-> BacklogRow(Level(ToString(i)), 2 * i, 3)] }

BacklogTables == SeqsUpTo(BacklogRows, MaxRows) \cup LongTables

NoChart == [story |-> << >>, drawn |-> << >>]

BacklogIdle == btable = << >> /\ bchart = NoChart /\ bstatus = "idle"

BacklogStart ==
    /\ btable \in BacklogTables
    /\ bchart = NoChart
    /\ bstatus = "ready"

\* self._generate_backlog_table(df, doc_width) with the width of the page
\* body
GenerateBacklogTable ==
    /\ bstatus = "ready"
    /\ bchart' = [story |-> _generate_backlog_table(btable, 468), drawn |-> << >>]
    /\ bstatus' = "returned"
    /\ UNCHANGED btable
    /\ UNCHANGED exceptBacklog

\* the renderer calls draw on the flowables of the story
DrawBacklog ==
    /\ bstatus = "returned"
    /\ bchart' = [bchart EXCEPT !.drawn =
                     [k \in 1..Len(bchart.story) |-> Container_draw(bchart.story[k])]]
    /\ bstatus' = "drawn"
    /\ UNCHANGED btable
    /\ UNCHANGED exceptBacklog

\* the sum of unresolved_count over the rows of a service
RECURSIVE SumOf(_, _)
SumOf(rows, label) ==
    IF rows = << >> THEN 0
    ELSE (IF Level1Of(rows[1]) = label THEN rows[1].unresolved_count ELSE 0)
         + SumOf(Tail(rows), label)

\* the bars of the backlog chart
BacklogBars == IF bchart.story = << >> THEN << >> ELSE bchart.story[1].charts_data

\* C24: in the backlog strategy each horizontal bar's value equals the sum
\* of unresolved_count over all rows of the dataset that share its
\* first-level grouping key, for datasets of any number of rows; the bars
\* are in non-increasing order of that sum and there are at most 15.
C24_BacklogSums ==
    bstatus # "ready" /\ bstatus # "idle" =>
        /\ \A k \in 1..Len(BacklogBars) :
              BacklogBars[k].count = SumOf(btable, BacklogBars[k].label)
        /\ \A k \in 1..(Len(BacklogBars) - 1) :
              BacklogBars[k].count >= BacklogBars[k + 1].count
        /\ Len(BacklogBars) <= 15


\* the containers drawn, each with the flowable it was drawn from
Drawn == {[self |-> bchart.story[k], on |-> bchart.drawn[k]] : k \in 1..Len(bchart.drawn)}

\* C25: the backlog container is sized to exactly contain its n >= 1 bars:
\* its height is n*28 + (n-1)*8 + 2*4, the first bar's top is at height -
\* padding, the last bar's bottom is at exactly padding, consecutive bars
\* are 8 apart and never overlap, and every bar lies inside the border
\* rectangle vertically and horizontally.
C25_ContainerFitsBars ==
    bstatus = "drawn" =>
        \A c \in Drawn :
            LET n == Len(c.on.charts)
                Top(i) == c.on.charts[i].y + c.on.charts[i].height
            IN  /\ n >= 1
                /\ c.on.border.height = n * 28 + (n - 1) * 8 + 2 * 4
                /\ c.self.height = c.on.border.height
                /\ Top(1) = c.on.border.height - c.self.padding
                /\ c.on.charts[n].y = c.self.padding
                /\ \A i \in 1..(n - 1) : c.on.charts[i].y - Top(i + 1) = 8
                /\ \A i \in 1..n :
                      /\ c.on.charts[i].height = 28
                      /\ c.on.border.y <= c.on.charts[i].y
                      /\ Top(i) <= c.on.border.y + c.on.border.height
                      /\ c.on.border.x <= c.on.charts[i].x
                      /\ c.on.charts[i].x + c.on.charts[i].width
                            <= c.on.border.x + c.on.border.width

\* a container drawn with the full fifteen bars
C25_Witness ==
    /\ bstatus = "drawn"
    /\ Len(bchart.drawn) = 1
    /\ Len(bchart.drawn[1].charts) = 15

-----------------------------------------------------------------------------
(* BarChartFlowable.draw and the places that construct vertical bars       *)

\* the flowable as constructed; by names the code that constructed it
VerticalBar(value, max_value, width, height, by) ==
    [value |-> value, max_value |-> max_value, width |-> width,
     height |-> height, by |-> by]

\* what draw puts on the canvas: the bar rectangle, if any
BarChart_draw(self) ==
    LET label_height == 30
        chart_height == self.height - label_height
        bar_width == QMax(QInt(10), QMin(QInt(self.width - 4),
                                         QMul(QInt(self.width), Q(95, 100))))
        bar_x == QMax(QInt(0), QDiv(QSub(QInt(self.width), bar_width), QInt(2)))
        bar_height == IF QLt(QInt(0), self.max_value)
                      THEN QMul(QDiv(QAbs(self.value), self.max_value),
                                QInt(chart_height))
                      ELSE QInt(0)
    IN  [chart_height |-> chart_height,
         bar_height |-> bar_height,
         rects |-> IF QLt(QInt(0), bar_height)
                   THEN <<Rect(bar_x, QInt(label_height), bar_width, bar_height)>>
                   ELSE << >>]

\* max of a non-empty list of fractions
QMaxOf(values) ==
    CHOOSE m \in Range(values) : \A k \in 1..Len(values) : QLe(values[k], m)

\* generate_pdf, simple bars: one bar per growth metric, scaled to the
\* largest absolute growth, and one per volume metric, scaled to the largest
\* volume, each of height 30 over the width of the page body
SimpleGrowthBars(values, doc_width) ==
    LET max_growth == QMaxOf([k \in 1..Len(values) |-> QAbs(values[k])])
    IN  [k \in 1..Len(values) |->
            VerticalBar(values[k], max_growth, doc_width, 30, "simple growth")]

SimpleVolumeBars(values, doc_width) ==
    LET max_volume == QMaxOf(values)
    IN  [k \in 1..Len(values) |->
            VerticalBar(values[k], max_volume, doc_width, 30, "simple volume")]

\* _generate_pie_chart and _generate_bar_chart_generic: one bar per
\* displayed row, scaled to the largest displayed value, of height 100; the
\* rows of the model's tables are at most 15, so all are displayed
SideBySideBars(values, doc_width, by) ==
    LET max_value == QMaxOf(values)
        num_bars == Len(values)
        max_bar_width == 45
        bar_width == IF QLt(QMul(QInt(doc_width), Q(95, 100)),
                            QInt(num_bars * max_bar_width))
                     THEN QDiv(QMul(QInt(doc_width), Q(95, 100)), QInt(num_bars))
                     ELSE QMin(Q(doc_width, num_bars), QInt(max_bar_width))
    IN  [k \in 1..Len(values) |->
            VerticalBar(values[k], max_value, bar_width.n \div bar_width.d,
                        100, by)]

\* longest list of values drawn as bars
MaxBarValues == 3

\* growth percentages, volumes and table values
GrowthValues == {QInt(-120), QInt(-50), QInt(0), QInt(12), Q(731, 10), QInt(100)}
VolumeValues == {QInt(0), QInt(50), QInt(120), QInt(663), QInt(1000)}
TableValues == {QInt(0), QInt(5), QInt(12), QInt(40), QInt(100)}

NonEmpty(S) == {sq \in S : sq # << >>}

VerticalBars ==
    UNION {Range(SimpleGrowthBars(vs, 468)) :
              vs \in NonEmpty(SeqsUpTo(GrowthValues, MaxBarValues))}
    \cup UNION {Range(SimpleVolumeBars(vs, 468)) :
              vs \in NonEmpty(SeqsUpTo(VolumeValues, MaxBarValues))}
    \cup UNION {Range(SideBySideBars(vs, 468, by)) :
              vs \in NonEmpty(SeqsUpTo(TableValues, MaxBarValues)),
              by \in {"pie", "generic"}}
    \cup Range(SideBySideBars([k \in 1..12 |-> QInt(3 * k)], 468, "generic"))

VBarStart ==
    /\ bar \in VerticalBars
    /\ canvas = NoCanvas
    /\ dstatus = "ready"

\* the renderer calls flowable.draw()
DrawVertical ==
    /\ dstatus = "ready"
    /\ canvas' = BarChart_draw(bar)
    /\ dstatus' = "drawn"
    /\ UNCHANGED bar
    /\ UNCHANGED exceptDraw

\* C26: for every vertical bar that the Metrics Analysis simple-bar
\* fallback (height 30) or the pie and generic-bar strategies (height 100)
\* construct, the drawn bar height |value|/maximum * (height - 30) lies
\* between 0 and the height remaining above the 30-point label band, and is
\* positive whenever the value is non-zero and the maximum is positive.
C26_VerticalBarHeight ==
    dstatus = "drawn" =>
        /\ QLe(QInt(0), canvas.bar_height)
        /\ QLe(canvas.bar_height, QInt(bar.height - 30))
        /\ (bar.value.n # 0 /\ QLt(QInt(0), bar.max_value)) =>
              /\ QLt(QInt(0), canvas.bar_height)
              /\ Len(canvas.rects) = 1
              /\ canvas.rects[1].height = canvas.bar_height

-----------------------------------------------------------------------------
(* Properties of the command line and of the convenience function          *)

\* C29: when the command line is given a JSON payload that loads and has
\* all of answer, rationale and key_metrics, main proceeds past validation
\* to save_report, so the generation pipeline has run when main is over,
\* and main does not end with an error between validation and generation.
C29_CliReachesSaveReport ==
    (/\ gstatus = "done"
     /\ invocation.entry = "main"
     /\ invocation.input = "loadable"
     /\ RequiredFields \subseteq payload.has) =>
        /\ renders >= 1
        /\ result.error # "AttributeError"

\* C30: generate_report_from_json called with an output path runs the
\* generation pipeline exactly once per call, so the bytes it returns are
\* the bytes of the one generation that was written to the output path.
C30_OneGenerationPerCall ==
    (/\ gstatus = "done"
     /\ invocation.entry = "generate_report_from_json"
     /\ invocation.output_path) =>
        renders = 1

-----------------------------------------------------------------------------
(* Specifications                                                          *)

vars == <<text, pstatus, parsed, dframe, cstatus, chart_type, viz, verror,
          gen, ninput, section, response, narrative, nstatus,
          invocation, generator, payload, datasets, responses, result,
          outfile, renders, lookups, gstatus, bar, canvas, dstatus,
          minput, mbundles, mcharts, mstatus, glist, grouped, gcall,
          btable, bchart, bstatus>>

\* MetricParser.parse applied to one metric string
ParserInit == ParserStart /\ ClassifyIdle /\ NarrIdle /\ PdfIdle /\ DrawIdle /\ MetricsIdle /\ GroupIdle /\ BacklogIdle
ParserNext == Parse /\ UNCHANGED exceptParser
SpecParser == ParserInit /\ [][ParserNext]_vars

\* _detect_chart_type, alone and inside _generate_product_visualization,
\* applied to one table
ClassifyInit == ClassifyStart /\ ParserIdle /\ NarrIdle /\ PdfIdle /\ DrawIdle /\ MetricsIdle /\ GroupIdle /\ BacklogIdle
ClassifyNext ==
    \/ Classify
    \/ Visualize
SpecClassify == ClassifyInit /\ [][ClassifyNext]_vars

\* one narrative section generated by one generator
NarrInit == NarrStart /\ ParserIdle /\ ClassifyIdle /\ PdfIdle /\ DrawIdle /\ MetricsIdle /\ GroupIdle /\ BacklogIdle
NarrNext ==
    \/ GenerateIntroduction
    \/ GenerateExecutiveSummary
    \/ GenerateConclusion
    \/ GenerateDetailedInsights
SpecNarr == NarrInit /\ [][NarrNext]_vars

\* one call of one entry point
PdfInit == PdfStart /\ ParserIdle /\ ClassifyIdle /\ NarrIdle /\ DrawIdle /\ MetricsIdle /\ GroupIdle /\ BacklogIdle
PdfNext ==
    \/ GeneratePdf
    \/ Generate
    \/ SaveReport
    \/ GenerateReportFromJson
    \/ CliMain
SpecPdf == PdfInit /\ [][PdfNext]_vars

\* one flowable drawn once
DrawInit == DrawStart /\ ParserIdle /\ ClassifyIdle /\ NarrIdle /\ PdfIdle /\ MetricsIdle /\ GroupIdle /\ BacklogIdle
DrawNext == Draw
SpecDraw == DrawInit /\ [][DrawNext]_vars

\* the Metrics Analysis block run once on one list of key metrics
MetricsInit == MetricsStart /\ ParserIdle /\ ClassifyIdle /\ NarrIdle /\ PdfIdle /\ DrawIdle /\ GroupIdle /\ BacklogIdle
MetricsNext == AnalyzeMetrics
SpecMetrics == MetricsInit /\ [][MetricsNext]_vars

\* one grouping function called once on one list
GroupInit == GroupStart /\ ParserIdle /\ ClassifyIdle /\ NarrIdle /\ PdfIdle /\ DrawIdle /\ MetricsIdle /\ BacklogIdle
GroupNext ==
    \/ GroupByType
    \/ GroupByCategory
SpecGroup == GroupInit /\ [][GroupNext]_vars

\* one horizontal bar drawn once
HBarInit == HBarStart /\ ParserIdle /\ ClassifyIdle /\ NarrIdle /\ PdfIdle /\ MetricsIdle /\ GroupIdle /\ BacklogIdle
HBarNext == DrawHorizontal
SpecHBar == HBarInit /\ [][HBarNext]_vars

\* the backlog strategy applied to one table, and its container drawn
BacklogInit == BacklogStart /\ ParserIdle /\ ClassifyIdle /\ NarrIdle /\ PdfIdle /\ DrawIdle /\ MetricsIdle /\ GroupIdle
BacklogNext ==
    \/ GenerateBacklogTable
    \/ DrawBacklog
SpecBacklog == BacklogInit /\ [][BacklogNext]_vars

\* one vertical bar drawn once
VBarInit == VBarStart /\ ParserIdle /\ ClassifyIdle /\ NarrIdle /\ PdfIdle /\ MetricsIdle /\ GroupIdle /\ BacklogIdle
VBarNext == DrawVertical
SpecVBar == VBarInit /\ [][VBarNext]_vars

====
